---- MODULE Spec2Model ----
(***************************************************************************)
(* Heart-rate monitor: the streaming signal-processing and BPM             *)
(* stabilisation engine of src/unnamed/part_000 (the variant with the      *)
(* signal-quality gate) and of src/src/main.js (the simpler variant),      *)
(* together with the start/stop life cycle that drives the ticks.          *)
(*                                                                         *)
(* Number representation.  JavaScript doubles are modelled in fixed point: *)
(*   - brightness values are integers in units of 1/10000 (VALUE_UNIT);    *)
(*   - BPM values (raw BPMs, candidate medians, the stable candidate) are  *)
(*     integers in units of 1/SCALE BPM;                                   *)
(*   - times are integer milliseconds, as Date.now() returns them.         *)
(* null is the integer NULL, NaN the integer NaN (both negative, no value  *)
(* of the program is negative).                                            *)
(***************************************************************************)
EXTENDS Integers, Sequences, FiniteSets, TLC

NULL == 0 - 1
NaN == 0 - 2

\* fixed-point resolution of BPM values: 1/SCALE BPM
SCALE == 100
\* brightness values are counted in 1/VALUE_UNIT
VALUE_UNIT == 10000

(***************************************************************************)
(* Program constants of part_000.                                          *)
(***************************************************************************)
\* capacity of SAMPLE_BUFFER (the source sets 60 * 5; the model checks a
\* scaled-down capacity, every threshold derived from it scales with it)
MAX_SAMPLES == 9
\* MIN_SIGNAL_RANGE = 0.0015, in 1/VALUE_UNIT
MIN_SIGNAL_RANGE == 15
MIN_CROSSINGS_FOR_RAW_BPM == 4
RAW_BPM_VALIDITY_WINDOW_MS == 2000
RAW_BPM_CONSISTENCY_THRESHOLD == 10
MIN_CONSISTENT_RAW_BPMS_FOR_CANDIDATE == 3
STABLE_BPM_CANDIDATE_BUFFER_SIZE == 5
REQUIRED_STABILITY_COUNT == 3
BPM_STABILITY_TOLERANCE == 3

(***************************************************************************)
(* Bounds of the model.                                                    *)
(***************************************************************************)
\* number of animation frames (monitorLoop callbacks) in one behaviour
MaxFrames == 18
\* number of frames whose brightness equals the previous sample's brightness
MaxFlatFrames == 2
\* number of toggleMonitoring calls in one behaviour
MaxToggles == 2
\* the two brightness levels a frame can have, in 1/VALUE_UNIT
LoValue == 5000
HiValue == 5020
Values == {LoValue, HiValue}
\* frame periods (ms between two Date.now() readings): crossings of an
\* alternating signal are two periods apart, i.e. 100 BPM, 93.75 BPM, and
\* 2000 ms (no plausible interval)
RapidPeriod == 136
FastPeriod == 300
DriftPeriod == 320
SlowPeriod == 1000
Periods == {RapidPeriod, FastPeriod, DriftPeriod, SlowPeriod}
\* how often the frame period may change in one behaviour
MaxPeriodChanges == 1

(***************************************************************************)
(* Display values: what setBpmDisplay hands to ON_BPM_CHANGE.              *)
(***************************************************************************)
Number(b) == [kind |-> "number", bpm |-> b, text |-> ""]
Tentative(b) == [kind |-> "tentative", bpm |-> b, text |-> ""]
Status(s) == [kind |-> "status", bpm |-> NULL, text |-> s]
\* no call of ON_BPM_CHANGE
NoCall == [kind |-> "none", bpm |-> NULL, text |-> ""]

ANALYZING == "Analyzing..."
LOW_SIGNAL == "Low Signal (Place finger firmly)"
NOISY == "Noisy Signal (Hold still)"
DETECTING_PULSE == "Detecting Pulse..."
GOOD_SIGNAL == "Good Signal"

(***************************************************************************)
(* Arithmetic helpers.                                                     *)
(***************************************************************************)
Abs(x) == IF x < 0 THEN 0 - x ELSE x

\* Math.round on a fixed-point BPM: nearest integer, halves upwards
Round(x) == (x + SCALE \div 2) \div SCALE

RECURSIVE SumSeq(_)
SumSeq(s) == IF s = <<>> THEN 0 ELSE Head(s) + SumSeq(Tail(s))

RECURSIVE MinSeq(_)
MinSeq(s) == IF Len(s) = 1 THEN s[1]
             ELSE LET m == MinSeq(Tail(s)) IN IF s[1] < m THEN s[1] ELSE m

RECURSIVE MaxSeq(_)
MaxSeq(s) == IF Len(s) = 1 THEN s[1]
             ELSE LET m == MaxSeq(Tail(s)) IN IF s[1] > m THEN s[1] ELSE m

\* Array.prototype.sort((a, b) => a - b)
RECURSIVE Insert(_, _)
Insert(x, s) == IF s = <<>> THEN <<x>>
                ELSE IF x <= Head(s) THEN <<x>> \o s
                ELSE <<Head(s)>> \o Insert(x, Tail(s))

RECURSIVE SortAsc(_)
SortAsc(s) == IF s = <<>> THEN <<>> ELSE Insert(Head(s), SortAsc(Tail(s)))

IsNumber(x) == x # NULL /\ x # NaN

\* JavaScript truthiness of a number-or-null
Truthy(x) == x # NULL /\ x # NaN /\ x # 0

ValuesOf(samples) == [i \in 1..Len(samples) |-> samples[i].value]

(***************************************************************************)
(* calculateStdDev: Math.pow is called with one argument, so every term of *)
(* the reduce is NaN and the result is NaN for a non-empty array.          *)
(***************************************************************************)
calculateStdDev(arr, mean) == IF Len(arr) = 0 THEN 0 ELSE NaN

(***************************************************************************)
(* calculateMedian.                                                        *)
(***************************************************************************)
\* the upper of the two middle elements for an even count
calculateMedian_UpperMiddle(arr) ==
    LET sortedArr == SortAsc(SelectSeq(arr, IsNumber))
    IN IF Len(sortedArr) = 0 THEN NULL ELSE sortedArr[Len(sortedArr) \div 2 + 1]

calculateMedian(arr) ==
    IF Len(arr) = 0 THEN NULL
    ELSE LET sortedArr == SortAsc(SelectSeq(arr, IsNumber))
             n == Len(sortedArr)
             mid == n \div 2
         IN IF n = 0 THEN NULL
            ELSE IF n % 2 = 0
                 THEN IF mid = 0 \/ n < 2
                      THEN (IF Truthy(sortedArr[1]) THEN sortedArr[1] ELSE NULL)
                      ELSE (sortedArr[mid] + sortedArr[mid + 1]) \div 2
                 ELSE sortedArr[mid + 1]

(***************************************************************************)
(* analyzeData and getAverageCrossings (upward crossings of the average).  *)
(* average is kept as the pair (sum, length): v > average is v * n > sum.   *)
(***************************************************************************)
\* a value equal to the average counts as above it
AboveAverage_OrEqual(v, sum, n) == v * n >= sum

AboveAverage(v, sum, n) == v * n > sum

RECURSIVE CrossingsFrom(_, _, _)
CrossingsFrom(samples, sum, i) ==
    IF i > Len(samples) THEN <<>>
    ELSE (IF AboveAverage(samples[i].value, sum, Len(samples))
             /\ ~AboveAverage(samples[i - 1].value, sum, Len(samples))
          THEN <<samples[i]>> ELSE <<>>) \o CrossingsFrom(samples, sum, i + 1)

getAverageCrossings(samples, sum) ==
    IF Len(samples) < 2 THEN <<>> ELSE CrossingsFrom(samples, sum, 2)

analyzeData(samples) ==
    IF Len(samples) = 0
    THEN [sum |-> 0, min |-> 0, max |-> 0, range |-> 0, crossings |-> <<>>]
    ELSE LET values == ValuesOf(samples)
             sum == SumSeq(values)
             min == MinSeq(values)
             max == MaxSeq(values)
         IN [sum |-> sum, min |-> min, max |-> max, range |-> max - min,
             crossings |-> getAverageCrossings(samples, sum)]

(***************************************************************************)
(* calculateBpm: 60000 / median of the plausible inter-crossing intervals. *)
(* Intervals are scaled by SCALE before the median so that the mean of two *)
(* middle intervals is exact; the result is in 1/SCALE BPM.                *)
(***************************************************************************)
\* the bounds 270 and 2000 themselves count as plausible
PlausibleInterval_Inclusive(dt) == dt >= 270 * SCALE /\ dt <= 2000 * SCALE

PlausibleInterval(dt) == dt > 270 * SCALE /\ dt < 2000 * SCALE

calculateBpm(crossingSamples) ==
    IF Len(crossingSamples) < 2 THEN NULL
    ELSE LET timeDifferences ==
                 [i \in 1..(Len(crossingSamples) - 1) |->
                     (crossingSamples[i + 1].time - crossingSamples[i].time) * SCALE]
             physiologicallyPlausibleIntervals == SelectSeq(timeDifferences, PlausibleInterval)
         IN IF Len(physiologicallyPlausibleIntervals) < 1 THEN NULL
            ELSE LET medianInterval == calculateMedian(physiologicallyPlausibleIntervals)
                 IN IF medianInterval = NULL \/ medianInterval <= 0 THEN NULL
                    ELSE (60000 * SCALE * SCALE) \div medianInterval

(***************************************************************************)
(* analyzeSignalQuality: the verdict of the quality gate.                  *)
(* samples.length < MAX_SAMPLES / 3 is 3 * length < MAX_SAMPLES.           *)
(* stdDev / range > 0.35 is false when stdDev is NaN.                      *)
(***************************************************************************)
RatioExceeds(stdDev, range) ==
    stdDev # NaN /\ stdDev * 100 > 35 * range

\* the crossing count is tested before the range
analyzeSignalQuality_CrossingsFirst(samples, dataStats) ==
    IF 3 * Len(samples) < MAX_SAMPLES
    THEN [good |-> FALSE, status |-> ANALYZING]
    ELSE IF Len(dataStats.crossings) < MIN_CROSSINGS_FOR_RAW_BPM
    THEN [good |-> FALSE, status |-> DETECTING_PULSE]
    ELSE IF dataStats.range < MIN_SIGNAL_RANGE
    THEN [good |-> FALSE, status |-> LOW_SIGNAL]
    ELSE IF dataStats.range > 0
            /\ RatioExceeds(calculateStdDev(ValuesOf(samples), NULL), dataStats.range)
    THEN [good |-> FALSE, status |-> NOISY]
    ELSE [good |-> TRUE, status |-> GOOD_SIGNAL]

analyzeSignalQuality(samples, dataStats) ==
    IF 3 * Len(samples) < MAX_SAMPLES
    THEN [good |-> FALSE, status |-> ANALYZING]
    ELSE IF dataStats.range < MIN_SIGNAL_RANGE
    THEN [good |-> FALSE, status |-> LOW_SIGNAL]
    ELSE IF dataStats.range > 0
            /\ RatioExceeds(calculateStdDev(ValuesOf(samples), NULL), dataStats.range)
    THEN [good |-> FALSE, status |-> NOISY]
    ELSE IF Len(dataStats.crossings) < MIN_CROSSINGS_FOR_RAW_BPM
    THEN [good |-> FALSE, status |-> DETECTING_PULSE]
    ELSE [good |-> TRUE, status |-> GOOD_SIGNAL]

(***************************************************************************)
(* State.                                                                  *)
(***************************************************************************)
VARIABLES
    SAMPLE_BUFFER,               \* sequence of [value, time]
    recentValidRawBpms,          \* sequence of [bpm, time, range]
    stableBpmCandidateBuffer,    \* sequence of candidate medians
    currentStableBpmCandidate,   \* fixed-point BPM or NULL
    currentStabilityCounter,
    lockedBpm,                   \* integer BPM or NULL
    lastSignalQualityStatus,
    rawBpmBuffer,                \* main.js: sequence of raw BPMs
    stableBpmCandidate,          \* main.js: fixed-point BPM or NULL
    stabilityCounter,            \* main.js
    lastDisplayedBpm,            \* main.js: the locked BPM (fixed point) or NULL
    MONITORING,                  \* the running flag
    VIDEO_STREAM,                \* NULL or the id of a stream
    activeStreams,               \* ids of the streams whose tracks are live
    streamCount,                 \* streams handed out by getUserMedia so far
    videoPlaying,                \* VIDEO_ELEMENT is playing (not paused, data ready)
    awaiting,                    \* suspended async calls, counted per await
    timers,                      \* pending START_DELAY timeouts
    loops,                       \* monitorLoop chains with a pending animation frame
    toggles,                     \* toggleMonitoring calls so far
    now,                         \* Date.now() at the last frame
    period,                      \* the last frame period, 0 before the first frame
    periodChanges,
    frames,                      \* animation frames so far
    flatFrames,
    display,                     \* the last value handed to ON_BPM_CHANGE
    surfaced,                    \* the value handed to ON_BPM_CHANGE by the last step, or NoCall
    verdict,                     \* status of the gate on the last tick, "" otherwise
    rawBpm,                      \* calculateBpm's result on the last Good tick, else NULL
    op,                          \* the last operation
    call                         \* a call of a pure function: its argument and result

engine == <<recentValidRawBpms, stableBpmCandidateBuffer, currentStableBpmCandidate,
            currentStabilityCounter, lockedBpm, lastSignalQualityStatus>>

engineMain == <<rawBpmBuffer, stableBpmCandidate, stabilityCounter, lastDisplayedBpm>>

streams == <<VIDEO_STREAM, activeStreams, streamCount>>

clock == <<now, period, periodChanges, frames, flatFrames>>

vars == <<SAMPLE_BUFFER, recentValidRawBpms, stableBpmCandidateBuffer,
          currentStableBpmCandidate, currentStabilityCounter, lockedBpm,
          lastSignalQualityStatus, rawBpmBuffer, stableBpmCandidate, stabilityCounter,
          lastDisplayedBpm, MONITORING, VIDEO_STREAM, activeStreams, streamCount,
          videoPlaying, awaiting, timers, loops, toggles, now, period, periodChanges,
          frames, flatFrames, display, surfaced, verdict, rawBpm, op, call>>

(***************************************************************************)
(* The state a measurement pass works on, and resetMeasurementState.       *)
(***************************************************************************)
MeasurementState ==
    [recent |-> recentValidRawBpms,
     candidates |-> stableBpmCandidateBuffer,
     candidate |-> currentStableBpmCandidate,
     counter |-> currentStabilityCounter,
     locked |-> lockedBpm,
     lastStatus |-> lastSignalQualityStatus]

\* a reset that leaves the candidate medians in their buffer
resetMeasurementState_KeepsCandidates(m, clearLocked) ==
    [recent |-> <<>>,
     candidates |-> m.candidates,
     candidate |-> NULL,
     counter |-> 0,
     locked |-> IF clearLocked THEN NULL ELSE m.locked,
     lastStatus |-> ""]

resetMeasurementState(m, clearLocked) ==
    [recent |-> <<>>,
     candidates |-> <<>>,
     candidate |-> NULL,
     counter |-> 0,
     locked |-> IF clearLocked THEN NULL ELSE m.locked,
     lastStatus |-> ""]

\* shifts as soon as the buffer is full
PushSample_ShiftWhenFull(buffer, sample) ==
    LET pushed == Append(buffer, sample)
    IN IF Len(pushed) >= MAX_SAMPLES THEN Tail(pushed) ELSE pushed

\* SAMPLE_BUFFER.push(sample); if (length > MAX_SAMPLES) shift()
PushSample(buffer, sample) ==
    LET pushed == Append(buffer, sample)
    IN IF Len(pushed) > MAX_SAMPLES THEN Tail(pushed) ELSE pushed

\* stableBpmCandidateBuffer.push(c); if (length > SIZE) shift()
\* a push that drops the new median when the buffer is full
PushCandidate_DropsNewest(buffer, c) ==
    IF Len(buffer) >= STABLE_BPM_CANDIDATE_BUFFER_SIZE THEN buffer ELSE Append(buffer, c)

PushCandidate(buffer, c) ==
    LET pushed == Append(buffer, c)
    IN IF Len(pushed) > STABLE_BPM_CANDIDATE_BUFFER_SIZE THEN Tail(pushed) ELSE pushed

\* line 326 without the upper bound
AcceptedRawBpm_NoUpperBound(bpm) == bpm # NULL /\ bpm >= 30 * SCALE

\* line 326: rawBpm !== null && rawBpm >= 30 && rawBpm <= 220
AcceptedRawBpm(bpm) == bpm # NULL /\ bpm >= 30 * SCALE /\ bpm <= 220 * SCALE

(***************************************************************************)
(* processFrame, lines 324-353: the raw BPM consistency filter.            *)
(* Returns the measurement state after the filter.                         *)
(***************************************************************************)
\* line 330 without the filter
EvictOld_KeepsAll(observations, currentTime) == observations

\* line 330: recentValidRawBpms.filter(rb => currentTime - rb.time < WINDOW)
EvictOld(observations, currentTime) ==
    LET Recent(rb) == currentTime - rb.time < RAW_BPM_VALIDITY_WINDOW_MS
    IN SelectSeq(observations, Recent)

\* lines 333-338 without the spread test
Consistent_AnySpread(recentBpmsOnly) ==
    Len(recentBpmsOnly) >= MIN_CONSISTENT_RAW_BPMS_FOR_CANDIDATE

\* lines 333-338: enough recent raw BPMs, and their spread within the threshold
Consistent(recentBpmsOnly) ==
    /\ Len(recentBpmsOnly) >= MIN_CONSISTENT_RAW_BPMS_FOR_CANDIDATE
    /\ MaxSeq(recentBpmsOnly) - MinSeq(recentBpmsOnly)
           <= RAW_BPM_CONSISTENCY_THRESHOLD * SCALE

\* a filter that tests the spread and takes the median before the eviction
ConsistencyFilter_BeforeEviction(m, bpm, currentTime, range) ==
    IF AcceptedRawBpm(bpm)
    THEN LET pushed == Append(m.recent, [bpm |-> bpm, time |-> currentTime, range |-> range])
             kept == EvictOld(pushed, currentTime)
             recentBpmsOnly == [i \in 1..Len(pushed) |-> pushed[i].bpm]
         IN IF Consistent(recentBpmsOnly) /\ Truthy(calculateMedian(recentBpmsOnly))
            THEN [m EXCEPT !.recent = kept,
                           !.candidates = PushCandidate(m.candidates,
                                                        calculateMedian(recentBpmsOnly))]
            ELSE [m EXCEPT !.recent = kept]
    ELSE m

\* a filter that empties the window when the retained raw BPMs are too spread
ConsistencyFilter_ClearsOnSpread(m, bpm, currentTime, range) ==
    IF AcceptedRawBpm(bpm)
    THEN LET pushed == Append(m.recent, [bpm |-> bpm, time |-> currentTime, range |-> range])
             kept == EvictOld(pushed, currentTime)
             recentBpmsOnly == [i \in 1..Len(kept) |-> kept[i].bpm]
         IN IF Consistent(recentBpmsOnly) /\ Truthy(calculateMedian(recentBpmsOnly))
            THEN [m EXCEPT !.recent = kept,
                           !.candidates = PushCandidate(m.candidates,
                                                        calculateMedian(recentBpmsOnly))]
            ELSE [m EXCEPT !.recent = IF Len(kept) >= MIN_CONSISTENT_RAW_BPMS_FOR_CANDIDATE
                                      THEN <<>> ELSE kept]
    ELSE m

ConsistencyFilter(m, bpm, currentTime, range) ==
    IF AcceptedRawBpm(bpm)
    THEN LET pushed == Append(m.recent, [bpm |-> bpm, time |-> currentTime, range |-> range])
             kept == EvictOld(pushed, currentTime)
             recentBpmsOnly == [i \in 1..Len(kept) |-> kept[i].bpm]
         IN IF Consistent(recentBpmsOnly) /\ Truthy(calculateMedian(recentBpmsOnly))
            THEN [m EXCEPT !.recent = kept,
                           !.candidates = PushCandidate(m.candidates,
                                                        calculateMedian(recentBpmsOnly))]
            ELSE [m EXCEPT !.recent = kept]
    ELSE m

(***************************************************************************)
(* processFrame, lines 356-401: the stabilizer and the lock.               *)
(* Returns [m |-> measurement state, shown |-> value given to the display].*)
(***************************************************************************)
\* a stabilizer that counts only a median that differs from the candidate
StabilizerUpdate_OnNewEvidence(m, medianOfCandidates) ==
    IF m.candidate = NULL
    THEN [m EXCEPT !.candidate = medianOfCandidates, !.counter = 1]
    ELSE IF medianOfCandidates = m.candidate
    THEN m
    ELSE IF Abs(medianOfCandidates - m.candidate) <= BPM_STABILITY_TOLERANCE * SCALE
    THEN [m EXCEPT !.counter = m.counter + 1,
                   !.candidate = (m.candidate * 7 + medianOfCandidates * 3) \div 10]
    ELSE [m EXCEPT !.candidate = medianOfCandidates, !.counter = 1]

\* a stabilizer that keeps the accumulated count when the candidate is replaced
StabilizerUpdate_KeepsCount(m, medianOfCandidates) ==
    IF m.candidate = NULL
    THEN [m EXCEPT !.candidate = medianOfCandidates, !.counter = 1]
    ELSE IF Abs(medianOfCandidates - m.candidate) <= BPM_STABILITY_TOLERANCE * SCALE
    THEN [m EXCEPT !.counter = m.counter + 1,
                   !.candidate = (m.candidate * 7 + medianOfCandidates * 3) \div 10]
    ELSE [m EXCEPT !.candidate = medianOfCandidates]

\* a stabilizer whose tolerance excludes the boundary
StabilizerUpdate_StrictTolerance(m, medianOfCandidates) ==
    IF m.candidate = NULL
    THEN [m EXCEPT !.candidate = medianOfCandidates, !.counter = 1]
    ELSE IF Abs(medianOfCandidates - m.candidate) < BPM_STABILITY_TOLERANCE * SCALE
    THEN [m EXCEPT !.counter = m.counter + 1,
                   !.candidate = (m.candidate * 7 + medianOfCandidates * 3) \div 10]
    ELSE [m EXCEPT !.candidate = medianOfCandidates, !.counter = 1]

\* lines 360-375: the stable candidate and its counter
StabilizerUpdate(m, medianOfCandidates) ==
    IF m.candidate = NULL
    THEN [m EXCEPT !.candidate = medianOfCandidates, !.counter = 1]
    ELSE IF Abs(medianOfCandidates - m.candidate) <= BPM_STABILITY_TOLERANCE * SCALE
    THEN [m EXCEPT !.counter = m.counter + 1,
                   !.candidate = (m.candidate * 7 + medianOfCandidates * 3) \div 10]
    ELSE [m EXCEPT !.candidate = medianOfCandidates, !.counter = 1]

\* line 377: the counter has reached the lock threshold
LockReached_Early(counter) == counter >= REQUIRED_STABILITY_COUNT - 1

LockReached_Late(counter) == counter > REQUIRED_STABILITY_COUNT

LockReached(counter) == counter >= REQUIRED_STABILITY_COUNT

\* lines 385-391: what is shown when the stabilizer ran and did not lock
NotLockedShown_CandidateFirst(m) ==
    IF m.candidate # NULL THEN Tentative(Round(m.candidate))
    ELSE IF m.locked # NULL THEN Number(m.locked)
    ELSE Status("Calculating...")

\* the forming candidate shown as if it were a confident number
NotLockedShown_NoMark(m) ==
    IF m.locked # NULL THEN Number(m.locked)
    ELSE IF m.candidate # NULL THEN Number(Round(m.candidate))
    ELSE Status("Calculating...")

NotLockedShown(m) ==
    IF m.locked # NULL THEN Number(m.locked)
    ELSE IF m.candidate # NULL THEN Tentative(Round(m.candidate))
    ELSE Status("Calculating...")

\* too few candidate medians, shown as the status the gate has just stored
FewCandidatesShown_StoredStatus(m) ==
    IF m.locked # NULL THEN Number(m.locked) ELSE Status(m.lastStatus)

\* lines 396-400: what is shown when there are too few candidate medians
FewCandidatesShown_Calculating(m) ==
    IF m.locked # NULL THEN Number(m.locked) ELSE Status("Calculating...")

FewCandidatesShown(m) ==
    IF m.locked # NULL THEN Number(m.locked) ELSE Status("Detecting...")

Stabilizer(m) ==
    IF Len(m.candidates) >= REQUIRED_STABILITY_COUNT
    THEN LET medianOfCandidates == calculateMedian(m.candidates)
         IN IF Truthy(medianOfCandidates)
            THEN LET upd == StabilizerUpdate(m, medianOfCandidates)
                 IN IF LockReached(upd.counter)
                    THEN [m |-> [upd EXCEPT !.locked = Round(upd.candidate)],
                          shown |-> Number(Round(upd.candidate))]
                    ELSE [m |-> upd, shown |-> NotLockedShown(upd)]
            ELSE [m |-> m, shown |-> NoCall]
    ELSE [m |-> m, shown |-> FewCandidatesShown(m)]

(***************************************************************************)
(* processFrame, lines 304-319: a tick whose verdict is not Good.          *)
(***************************************************************************)
\* lines 307-310: the status is displayed when it differs from the last one
BadSignalShown_KeepsLock(m, status) ==
    IF m.locked # NULL THEN NoCall
    ELSE IF status # m.lastStatus THEN Status(status) ELSE NoCall

BadSignalShown(m, status) ==
    IF status # m.lastStatus THEN Status(status) ELSE NoCall

\* lines 312-317: without a lock the working state is reset, the lock kept
BadSignalReset_ClearsLock(m) == resetMeasurementState(m, TRUE)

BadSignalReset(m) ==
    IF m.locked # NULL THEN m ELSE resetMeasurementState(m, FALSE)

\* a non-Good tick that resets the working state whether a BPM is locked or not
BadSignal_AlwaysResets(m, status) ==
    LET noted == IF status # m.lastStatus THEN [m EXCEPT !.lastStatus = status] ELSE m
    IN [m |-> resetMeasurementState(noted, FALSE), shown |-> BadSignalShown(m, status)]

BadSignal(m, status) ==
    LET noted == IF status # m.lastStatus THEN [m EXCEPT !.lastStatus = status] ELSE m
    IN [m |-> BadSignalReset(noted), shown |-> BadSignalShown(m, status)]

(***************************************************************************)
(* processFrame: one tick on the sample (value, currentTime).              *)
(***************************************************************************)
Tick(buffer, m, value, currentTime) ==
    LET samples == PushSample(buffer, [value |-> value, time |-> currentTime])
        dataStats == analyzeData(samples)
        signal == analyzeSignalQuality(samples, dataStats)
        bpm == calculateBpm(dataStats.crossings)
        out == IF ~signal.good
               THEN BadSignal(m, signal.status)
               ELSE Stabilizer(ConsistencyFilter([m EXCEPT !.lastStatus = signal.status],
                                                 bpm, currentTime, dataStats.range))
    IN [samples |-> samples, m |-> out.m, shown |-> out.shown,
        status |-> signal.status, rawBpm |-> IF signal.good THEN bpm ELSE NULL]

SetMeasurementState(m) ==
    /\ recentValidRawBpms' = m.recent
    /\ stableBpmCandidateBuffer' = m.candidates
    /\ currentStableBpmCandidate' = m.candidate
    /\ currentStabilityCounter' = m.counter
    /\ lockedBpm' = m.locked
    /\ lastSignalQualityStatus' = m.lastStatus

\* setBpmDisplay(shown), or no call
SetDisplay(shown) ==
    /\ surfaced' = shown
    /\ display' = IF shown = NoCall THEN display ELSE shown

\* an operation that is no tick leaves no verdict and no raw BPM behind
NoTick == verdict' = "" /\ rawBpm' = NULL

(***************************************************************************)
(* The animation frame: the clock advances by dt and the camera delivers   *)
(* the brightness value.  The guards bound the behaviour.                  *)
(***************************************************************************)
IsFlat(value) ==
    SAMPLE_BUFFER # <<>> /\ SAMPLE_BUFFER[Len(SAMPLE_BUFFER)].value = value

AnimationFrame(value, dt) ==
    /\ frames < MaxFrames
    /\ \/ period = 0
       \/ dt = period
       \/ periodChanges < MaxPeriodChanges
    /\ IsFlat(value) => flatFrames < MaxFlatFrames
    /\ now' = now + dt
    /\ period' = dt
    /\ periodChanges' = IF period # 0 /\ dt # period THEN periodChanges + 1 ELSE periodChanges
    /\ frames' = frames + 1
    /\ flatFrames' = IF IsFlat(value) THEN flatFrames + 1 ELSE flatFrames

(***************************************************************************)
(* processFrame (part_000): returns at once while the video is not         *)
(* playing, else runs one tick on (value, Date.now()).                     *)
(***************************************************************************)
processFrame(value, currentTime) ==
    IF ~videoPlaying
    THEN /\ UNCHANGED <<SAMPLE_BUFFER, engine>>
         /\ SetDisplay(NoCall)
         /\ NoTick
    ELSE LET t == Tick(SAMPLE_BUFFER, MeasurementState, value, currentTime)
         IN /\ SAMPLE_BUFFER' = t.samples
            /\ SetMeasurementState(t.m)
            /\ SetDisplay(t.shown)
            /\ verdict' = t.status
            /\ rawBpm' = t.rawBpm

(***************************************************************************)
(* monitorLoop (part_000): the animation-frame callback of a running       *)
(* chain.                                                                  *)
(***************************************************************************)
monitorLoop(value, dt) ==
    /\ loops > 0
    /\ IF ~MONITORING
       THEN /\ loops' = loops - 1
            /\ UNCHANGED <<SAMPLE_BUFFER, engine, clock>>
            /\ SetDisplay(NoCall)
            /\ NoTick
            /\ op' = "monitorLoopExit"
       ELSE /\ AnimationFrame(value, dt)
            /\ processFrame(value, now + dt)
            /\ UNCHANGED loops
            /\ op' = "processFrame"
    /\ UNCHANGED <<call, engineMain, MONITORING, streams, videoPlaying, awaiting, timers, toggles>>

(***************************************************************************)
(* The START_DELAY timeout set by startMonitoring (part_000).              *)
(***************************************************************************)
startDelayElapsed(value, dt) ==
    /\ timers > 0
    /\ timers' = timers - 1
    /\ IF ~MONITORING
       THEN /\ UNCHANGED <<SAMPLE_BUFFER, engine, loops, clock>>
            /\ SetDisplay(NoCall)
            /\ NoTick
            /\ op' = "startDelayElapsed"
       ELSE /\ AnimationFrame(value, dt)
            /\ processFrame(value, now + dt)
            /\ loops' = loops + 1
            /\ op' = "processFrame"
    /\ UNCHANGED <<call, engineMain, MONITORING, streams, videoPlaying, awaiting, toggles>>

(***************************************************************************)
(* startMonitoring (part_000), up to its first await.                      *)
(***************************************************************************)
startMonitoring ==
    /\ SAMPLE_BUFFER' = <<>>
    /\ SetMeasurementState(resetMeasurementState(MeasurementState, TRUE))
    /\ SetDisplay(Status("Starting..."))
    /\ awaiting' = [awaiting EXCEPT !.camera = @ + 1]
    /\ NoTick
    /\ op' = "startMonitoring"
    /\ UNCHANGED <<call, engineMain, MONITORING, streams, videoPlaying, timers, loops, clock>>

(***************************************************************************)
(* stopMonitoring (part_000), from the call to its first suspension or to  *)
(* its end.  before is what the caller displayed just before the call,     *)
(* suspended the async calls suspended at that moment.                     *)
(* setTorchStatus suspends on applyConstraints only for an active stream;  *)
(* otherwise the rest of stopMonitoring runs before any other task.        *)
(***************************************************************************)
\* the reset of stopMonitoring keeps the lock
StopTail_KeepsLock ==
    /\ videoPlaying' = FALSE
    /\ SetMeasurementState(resetMeasurementState(MeasurementState, FALSE))
    /\ SetDisplay(Status(""))

StopTail ==
    /\ videoPlaying' = FALSE
    /\ SetMeasurementState(resetMeasurementState(MeasurementState, TRUE))
    /\ SetDisplay(Status(""))

stopMonitoring(before, suspended) ==
    /\ MONITORING' = FALSE
    /\ IF VIDEO_STREAM # NULL /\ VIDEO_STREAM \in activeStreams
       THEN /\ awaiting' = [suspended EXCEPT !.torchOff = @ + 1]
            /\ SetDisplay(before)
            /\ op' = "stopMonitoring"
            /\ UNCHANGED <<engine, streams, videoPlaying>>
       ELSE /\ VIDEO_STREAM' = NULL
            /\ StopTail
            /\ op' = "stopDone"
            /\ awaiting' = suspended
            /\ UNCHANGED <<activeStreams, streamCount>>
    /\ NoTick
    /\ UNCHANGED <<call, SAMPLE_BUFFER, engineMain, timers, loops, clock>>

\* stopMonitoring resumes after await setTorchStatus(VIDEO_STREAM, false)
stopTorchSettled ==
    /\ awaiting.torchOff > 0
    /\ awaiting' = [awaiting EXCEPT !.torchOff = @ - 1]
    /\ IF VIDEO_STREAM = NULL
       THEN \* VIDEO_STREAM.getTracks() throws a TypeError: the call ends here
            /\ SetDisplay(NoCall)
            /\ op' = "stopThrew"
            /\ UNCHANGED <<engine, streams, videoPlaying>>
       ELSE /\ activeStreams' = activeStreams \ {VIDEO_STREAM}
            /\ VIDEO_STREAM' = NULL
            /\ StopTail
            /\ op' = "stopDone"
            /\ UNCHANGED streamCount
    /\ NoTick
    /\ UNCHANGED <<call, SAMPLE_BUFFER, engineMain, MONITORING, timers, loops, toggles, clock>>

(***************************************************************************)
(* startMonitoring resumes after await getCamera() and                     *)
(* await startCameraStream(cameraInfo).                                    *)
(***************************************************************************)
cameraSettled(ok) ==
    /\ awaiting.camera > 0
    /\ IF ok
       THEN /\ streamCount' = streamCount + 1
            /\ VIDEO_STREAM' = streamCount + 1
            /\ activeStreams' = activeStreams \cup {streamCount + 1}
            /\ awaiting' = [awaiting EXCEPT !.camera = @ - 1, !.torchOn = @ + 1]
            /\ SetDisplay(NoCall)
       ELSE \* startCameraStream reports "Camera Error" and returns null
            /\ VIDEO_STREAM' = NULL
            /\ awaiting' = [awaiting EXCEPT !.camera = @ - 1]
            /\ SetDisplay(Status("Camera Error"))
            /\ UNCHANGED <<activeStreams, streamCount>>
    /\ NoTick
    /\ op' = "cameraSettled"
    /\ UNCHANGED <<call, SAMPLE_BUFFER, engine, engineMain, MONITORING, videoPlaying, timers,
                   loops, toggles, clock>>

\* startMonitoring resumes after await setTorchStatus(VIDEO_STREAM, true)
startTorchSettled ==
    /\ awaiting.torchOn > 0
    /\ awaiting' = [awaiting EXCEPT !.torchOn = @ - 1, !.play = @ + 1]
    /\ SetDisplay(NoCall)
    /\ NoTick
    /\ op' = "startTorchSettled"
    /\ UNCHANGED <<call, SAMPLE_BUFFER, engine, engineMain, MONITORING, streams, videoPlaying,
                   timers, loops, toggles, clock>>

\* startMonitoring resumes after await VIDEO_ELEMENT.play()
playSettled(ok) ==
    /\ awaiting.play > 0
    /\ IF ok
       THEN /\ awaiting' = [awaiting EXCEPT !.play = @ - 1]
            /\ videoPlaying' = TRUE
            /\ MONITORING' = TRUE
            /\ timers' = timers + 1
            /\ SetDisplay(NoCall)
            /\ NoTick
            /\ op' = "playSettled"
            /\ UNCHANGED <<call, SAMPLE_BUFFER, engine, engineMain, streams, loops, clock>>
       ELSE \* catch (playError): "Video Error", then stopMonitoring()
            stopMonitoring(Status("Video Error"), [awaiting EXCEPT !.play = @ - 1])
    /\ UNCHANGED toggles

\* no async call is suspended and no START_DELAY timeout is pending
Quiescent ==
    /\ awaiting = [camera |-> 0, torchOn |-> 0, play |-> 0, torchOff |-> 0]
    /\ timers = 0

toggleMonitoring ==
    /\ toggles < MaxToggles
    /\ toggles' = toggles + 1
    /\ IF MONITORING THEN stopMonitoring(NoCall, awaiting) ELSE startMonitoring

\* no pure function is being called
Idle == [fn |-> "", arg |-> <<>>, done |-> FALSE, result |-> NULL]

InitState ==
    /\ SAMPLE_BUFFER = <<>>
    /\ recentValidRawBpms = <<>>
    /\ stableBpmCandidateBuffer = <<>>
    /\ currentStableBpmCandidate = NULL
    /\ currentStabilityCounter = 0
    /\ lockedBpm = NULL
    /\ lastSignalQualityStatus = ""
    /\ rawBpmBuffer = <<>>
    /\ stableBpmCandidate = NULL
    /\ stabilityCounter = 0
    /\ lastDisplayedBpm = NULL
    /\ MONITORING = FALSE
    /\ VIDEO_STREAM = NULL
    /\ activeStreams = {}
    /\ streamCount = 0
    /\ videoPlaying = FALSE
    /\ awaiting = [camera |-> 0, torchOn |-> 0, play |-> 0, torchOff |-> 0]
    /\ timers = 0
    /\ loops = 0
    /\ toggles = 0
    /\ now = 0
    /\ period = 0
    /\ periodChanges = 0
    /\ frames = 0
    /\ flatFrames = 0
    /\ display = NoCall
    /\ surfaced = NoCall
    /\ verdict = ""
    /\ rawBpm = NULL
    /\ op = "init"

Init == call = Idle /\ InitState

(***************************************************************************)
(* Spec: part_000 driven by a patient user (toggles only between two       *)
(* life-cycle transitions) and a camera with a steady frame period.        *)
(***************************************************************************)
PatientToggle == Quiescent /\ toggleMonitoring

SteadyPeriod(dt) == period = 0 \/ dt = period

Next ==
    \/ PatientToggle
    \/ \E ok \in BOOLEAN : cameraSettled(ok)
    \/ startTorchSettled
    \/ \E ok \in BOOLEAN : playSettled(ok)
    \/ \E value \in Values, dt \in Periods :
           SteadyPeriod(dt) /\ startDelayElapsed(value, dt)
    \/ \E value \in Values, dt \in Periods :
           SteadyPeriod(dt) /\ monitorLoop(value, dt)
    \/ stopTorchSettled

Spec == Init /\ [][Next]_vars

(***************************************************************************)
(* DriftSpec: part_000 on a clean alternating signal (no flat frame) from  *)
(* a camera whose frame period changes, at most MaxPeriodChanges times;    *)
(* the user starts monitoring and never stops a running session.           *)
(***************************************************************************)
PatientStart == ~MONITORING /\ PatientToggle

NextDrift ==
    \/ PatientStart
    \/ \E ok \in BOOLEAN : cameraSettled(ok)
    \/ startTorchSettled
    \/ \E ok \in BOOLEAN : playSettled(ok)
    \/ \E value \in Values, dt \in Periods :
           ~IsFlat(value) /\ startDelayElapsed(value, dt)
    \/ \E value \in Values, dt \in Periods :
           ~IsFlat(value) /\ monitorLoop(value, dt)
    \/ stopTorchSettled

DriftSpec == Init /\ [][NextDrift]_vars

(***************************************************************************)
(* EagerSpec: part_000 driven by a user who may toggle at any moment, also *)
(* while startMonitoring or stopMonitoring is suspended in an await or the *)
(* START_DELAY timeout is pending; the signal alternates on every frame    *)
(* and the frame period is steady.                                         *)
(***************************************************************************)
NextEager ==
    \/ toggleMonitoring
    \/ \E ok \in BOOLEAN : cameraSettled(ok)
    \/ startTorchSettled
    \/ \E ok \in BOOLEAN : playSettled(ok)
    \/ \E value \in Values :
           ~IsFlat(value) /\ startDelayElapsed(value, FastPeriod)
    \/ \E value \in Values :
           ~IsFlat(value) /\ monitorLoop(value, FastPeriod)
    \/ stopTorchSettled

EagerSpec == Init /\ [][NextEager]_vars

(***************************************************************************)
(* main.js: the simple variant.  It shares SAMPLE_BUFFER, MONITORING,      *)
(* VIDEO_STREAM, the video element and calculateMedian with part_000 and   *)
(* has its own stabilization state.                                        *)
(***************************************************************************)
RAW_BPM_BUFFER_SIZE == 10
REQUIRED_STABILITY_COUNT_MAIN == 5
MIN_CROSSINGS_FOR_CALCULATION == 4
MIN_SIGNAL_RANGE_FOR_CALCULATION == 10
LOW_SIGNAL_MAIN == "Low Signal"
DETECTING == "Detecting..."

\* main.js getAverageCrossings: downward crossings of the average
RECURSIVE CrossingsFromMain(_, _, _)
CrossingsFromMain(samples, sum, i) ==
    IF i > Len(samples) THEN <<>>
    ELSE (IF samples[i].value * Len(samples) < sum
             /\ samples[i - 1].value * Len(samples) >= sum
          THEN <<samples[i]>> ELSE <<>>) \o CrossingsFromMain(samples, sum, i + 1)

getAverageCrossingsMain(samples, sum) ==
    IF Len(samples) < 2 THEN <<>> ELSE CrossingsFromMain(samples, sum, 2)

analyzeDataMain(samples) ==
    IF Len(samples) = 0
    THEN [sum |-> 0, min |-> 0, max |-> 0, range |-> 0, crossings |-> <<>>]
    ELSE LET values == ValuesOf(samples)
             sum == SumSeq(values)
             min == MinSeq(values)
             max == MaxSeq(values)
         IN [sum |-> sum, min |-> min, max |-> max, range |-> max - min,
             crossings |-> getAverageCrossingsMain(samples, sum)]

\* main.js calculateBpm: 60000 / median of all inter-crossing intervals
calculateBpmMain(samples) ==
    IF Len(samples) < 2 THEN NULL
    ELSE LET timeDifferences ==
                 [i \in 1..(Len(samples) - 1) |->
                     (samples[i + 1].time - samples[i].time) * SCALE]
             sortedIntervals == SortAsc(timeDifferences)
             mid == Len(sortedIntervals) \div 2
             medianInterval ==
                 IF Len(sortedIntervals) % 2 = 0
                 THEN (sortedIntervals[mid] + sortedIntervals[mid + 1]) \div 2
                 ELSE sortedIntervals[mid + 1]
         IN IF medianInterval = 0 THEN NULL
            ELSE (60000 * SCALE * SCALE) \div medianInterval

StabilityState ==
    [raws |-> rawBpmBuffer,
     candidate |-> stableBpmCandidate,
     counter |-> stabilityCounter,
     locked |-> lastDisplayedBpm]

\* a reset that forgets the candidate and keeps its count
resetBpmStability_KeepsCounter(m, clearLastLockedBpm) ==
    [raws |-> <<>>,
     candidate |-> NULL,
     counter |-> m.counter,
     locked |-> IF clearLastLockedBpm THEN NULL ELSE m.locked]

\* a reset that always clears the last locked BPM
resetBpmStability_ClearsLock(m, clearLastLockedBpm) ==
    [raws |-> <<>>,
     candidate |-> NULL,
     counter |-> 0,
     locked |-> NULL]

\* a reset that never clears the last locked BPM
resetBpmStability_KeepsLock(m, clearLastLockedBpm) ==
    [raws |-> <<>>,
     candidate |-> NULL,
     counter |-> 0,
     locked |-> m.locked]

resetBpmStability(m, clearLastLockedBpm) ==
    [raws |-> <<>>,
     candidate |-> NULL,
     counter |-> 0,
     locked |-> IF clearLastLockedBpm THEN NULL ELSE m.locked]

SetStabilityState(m) ==
    /\ rawBpmBuffer' = m.raws
    /\ stableBpmCandidate' = m.candidate
    /\ stabilityCounter' = m.counter
    /\ lastDisplayedBpm' = m.locked

\* a push that makes room by dropping the youngest of the old values
PushRawBpm_DropsYoungest(buffer, bpm) ==
    IF Len(buffer) >= RAW_BPM_BUFFER_SIZE
    THEN Append(SubSeq(buffer, 1, Len(buffer) - 1), bpm)
    ELSE Append(buffer, bpm)

\* rawBpmBuffer.push(bpm); if (length > RAW_BPM_BUFFER_SIZE) shift()
PushRawBpm(buffer, bpm) ==
    LET pushed == Append(buffer, bpm)
    IN IF Len(pushed) > RAW_BPM_BUFFER_SIZE THEN Tail(pushed) ELSE pushed

AcceptedRawBpmMain(bpm) == bpm # NULL /\ bpm >= 30 * SCALE /\ bpm <= 240 * SCALE

\* Math.round(lastDisplayedBpm) when there is a lock, else the fallback
LockOr(m, fallback) ==
    IF m.locked # NULL THEN Number(Round(m.locked)) ELSE fallback

\* main.js lines 308-321: the stable candidate and its counter
StabilizerUpdateMain(m, medianBpm) ==
    IF m.candidate = NULL
    THEN [m EXCEPT !.candidate = medianBpm, !.counter = 1]
    ELSE IF Abs(medianBpm - m.candidate) <= BPM_STABILITY_TOLERANCE * SCALE
    THEN [m EXCEPT !.counter = m.counter + 1,
                   !.candidate = (m.candidate * 7 + medianBpm * 3) \div 10]
    ELSE [m EXCEPT !.candidate = medianBpm, !.counter = 1]

\* main.js lines 283-336: the branch that attempts a BPM calculation
CalculationMain(m, currentRawBpm) ==
    IF ~AcceptedRawBpmMain(currentRawBpm)
    THEN [m |-> m,
          shown |-> LockOr(m, IF m.candidate # NULL THEN Number(Round(m.candidate))
                              ELSE Status("Hold Still"))]
    ELSE LET pushed == [m EXCEPT !.raws = PushRawBpm(m.raws, currentRawBpm)]
         IN IF 2 * Len(pushed.raws) < RAW_BPM_BUFFER_SIZE
            THEN [m |-> pushed, shown |-> LockOr(pushed, Status("Calculating..."))]
            ELSE LET medianBpm == calculateMedian(pushed.raws)
                 IN IF medianBpm = NULL
                    THEN [m |-> pushed, shown |-> LockOr(pushed, Status("Error"))]
                    ELSE LET upd == StabilizerUpdateMain(pushed, medianBpm)
                         IN IF upd.counter >= REQUIRED_STABILITY_COUNT_MAIN
                            THEN [m |-> [upd EXCEPT !.locked = upd.candidate],
                                  shown |-> Number(Round(upd.candidate))]
                            ELSE [m |-> upd,
                                  shown |-> LockOr(upd, Number(Round(upd.candidate)))]

\* main.js processFrame: one tick on the sample (value, time)
TickMain(buffer, m, value, time) ==
    LET samples == PushSample(buffer, [value |-> value, time |-> time])
        dataStats == analyzeDataMain(samples)
        currentRawBpm == calculateBpmMain(dataStats.crossings)
    IN IF 3 * Len(samples) < MAX_SAMPLES
       THEN [samples |-> samples, m |-> resetBpmStability(m, TRUE),
             shown |-> Status(ANALYZING), status |-> ANALYZING, rawBpm |-> NULL]
       ELSE IF dataStats.range < MIN_SIGNAL_RANGE_FOR_CALCULATION
       THEN [samples |-> samples, m |-> resetBpmStability(m, TRUE),
             shown |-> Status(LOW_SIGNAL_MAIN), status |-> LOW_SIGNAL_MAIN,
             rawBpm |-> NULL]
       ELSE IF Len(dataStats.crossings) < MIN_CROSSINGS_FOR_CALCULATION
       THEN [samples |-> samples, m |-> resetBpmStability(m, FALSE),
             shown |-> LockOr(m, Status(DETECTING)), status |-> DETECTING,
             rawBpm |-> NULL]
       ELSE LET out == CalculationMain(m, currentRawBpm)
            IN [samples |-> samples, m |-> out.m, shown |-> out.shown,
                status |-> GOOD_SIGNAL, rawBpm |-> currentRawBpm]

processFrameMain(value, time) ==
    LET t == TickMain(SAMPLE_BUFFER, StabilityState, value, time)
    IN /\ SAMPLE_BUFFER' = t.samples
       /\ SetStabilityState(t.m)
       /\ SetDisplay(t.shown)
       /\ verdict' = t.status
       /\ rawBpm' = t.rawBpm

\* main.js monitorLoop: the animation-frame callback of a running chain
monitorLoopMain(value, dt) ==
    /\ loops > 0
    /\ IF ~MONITORING
       THEN /\ loops' = loops - 1
            /\ UNCHANGED <<SAMPLE_BUFFER, engineMain, clock>>
            /\ SetDisplay(NoCall)
            /\ NoTick
            /\ op' = "monitorLoopExit"
       ELSE /\ AnimationFrame(value, dt)
            /\ processFrameMain(value, now + dt)
            /\ UNCHANGED loops
            /\ op' = "processFrame"
    /\ UNCHANGED <<call, engine, MONITORING, streams, videoPlaying, awaiting, timers, toggles>>

\* the START_DELAY timeout set by main.js startMonitoring
startDelayElapsedMain(value, dt) ==
    /\ timers > 0
    /\ timers' = timers - 1
    /\ IF ~MONITORING
       THEN /\ UNCHANGED <<SAMPLE_BUFFER, engineMain, loops, clock>>
            /\ SetDisplay(NoCall)
            /\ NoTick
            /\ op' = "startDelayElapsed"
       ELSE /\ AnimationFrame(value, dt)
            /\ processFrameMain(value, now + dt)
            /\ loops' = loops + 1
            /\ op' = "processFrame"
    /\ UNCHANGED <<call, engine, MONITORING, streams, videoPlaying, awaiting, toggles>>

\* main.js startMonitoring, up to await getCamera()
startMonitoringMain ==
    /\ SAMPLE_BUFFER' = <<>>
    /\ SetStabilityState(resetBpmStability(StabilityState, TRUE))
    /\ SetDisplay(Status(""))
    /\ awaiting' = [awaiting EXCEPT !.camera = @ + 1]
    /\ NoTick
    /\ op' = "startMonitoring"
    /\ UNCHANGED <<call, engine, MONITORING, streams, videoPlaying, timers, loops, clock>>

\* main.js stopMonitoring, up to await setTorchStatus(VIDEO_STREAM, false)
\* or, without a stream, to its end; MONITORING is not touched before the await
StopTailMain ==
    /\ videoPlaying' = FALSE
    /\ MONITORING' = FALSE
    /\ SetStabilityState(resetBpmStability(StabilityState, TRUE))
    /\ SetDisplay(Status(""))

stopMonitoringMain ==
    /\ IF VIDEO_STREAM # NULL
       THEN /\ awaiting' = [awaiting EXCEPT !.torchOff = @ + 1]
            /\ SetDisplay(NoCall)
            /\ op' = "stopMonitoring"
            /\ UNCHANGED <<engineMain, MONITORING, videoPlaying>>
       ELSE /\ StopTailMain
            /\ op' = "stopDone"
            /\ UNCHANGED awaiting
    /\ NoTick
    /\ UNCHANGED <<call, SAMPLE_BUFFER, engine, streams, timers, loops, clock>>

\* main.js stopMonitoring resumes after the await: the tracks are stopped,
\* the video paused and only then MONITORING is set to false
stopTorchSettledMain ==
    /\ awaiting.torchOff > 0
    /\ awaiting' = [awaiting EXCEPT !.torchOff = @ - 1]
    /\ IF VIDEO_STREAM = NULL
       THEN \* VIDEO_STREAM.getTracks() throws a TypeError: the call ends here
            /\ SetDisplay(NoCall)
            /\ op' = "stopThrew"
            /\ UNCHANGED <<engineMain, MONITORING, activeStreams, videoPlaying>>
       ELSE /\ activeStreams' = activeStreams \ {VIDEO_STREAM}
            /\ StopTailMain
            /\ op' = "stopDone"
    /\ NoTick
    /\ UNCHANGED <<call, SAMPLE_BUFFER, engine, VIDEO_STREAM, streamCount, timers, loops,
                   toggles, clock>>

\* main.js startMonitoring resumes after await getCamera() and
\* await startCameraStream(camera)
CameraOutcomes == {"stream", "denied", "none"}

cameraSettledMain(outcome) ==
    /\ awaiting.camera > 0
    /\ IF outcome = "stream"
       THEN /\ streamCount' = streamCount + 1
            /\ VIDEO_STREAM' = streamCount + 1
            /\ activeStreams' = activeStreams \cup {streamCount + 1}
            /\ awaiting' = [awaiting EXCEPT !.camera = @ - 1, !.torchOn = @ + 1]
       ELSE IF outcome = "denied"
       THEN \* startCameraStream alerts and returns null
            /\ VIDEO_STREAM' = NULL
            /\ awaiting' = [awaiting EXCEPT !.camera = @ - 1]
            /\ UNCHANGED <<activeStreams, streamCount>>
       ELSE \* no camera: alert and return
            /\ awaiting' = [awaiting EXCEPT !.camera = @ - 1]
            /\ UNCHANGED streams
    /\ SetDisplay(NoCall)
    /\ NoTick
    /\ op' = "cameraSettled"
    /\ UNCHANGED <<call, SAMPLE_BUFFER, engine, engineMain, MONITORING, videoPlaying, timers,
                   loops, toggles, clock>>

\* main.js startMonitoring resumes after await setTorchStatus(VIDEO_STREAM, true)
startTorchSettledMain ==
    /\ awaiting.torchOn > 0
    /\ awaiting' = [awaiting EXCEPT !.torchOn = @ - 1, !.play = @ + 1]
    /\ SetDisplay(NoCall)
    /\ NoTick
    /\ op' = "startTorchSettled"
    /\ UNCHANGED <<call, SAMPLE_BUFFER, engine, engineMain, MONITORING, streams, videoPlaying,
                   timers, loops, toggles, clock>>

\* main.js startMonitoring resumes after await VIDEO_ELEMENT.play(); a
\* rejection is not caught and ends the call
playSettledMain(ok) ==
    /\ awaiting.play > 0
    /\ awaiting' = [awaiting EXCEPT !.play = @ - 1]
    /\ IF ok
       THEN /\ videoPlaying' = TRUE
            /\ MONITORING' = TRUE
            /\ timers' = timers + 1
       ELSE UNCHANGED <<videoPlaying, MONITORING, timers>>
    /\ SetDisplay(NoCall)
    /\ NoTick
    /\ op' = "playSettled"
    /\ UNCHANGED <<call, SAMPLE_BUFFER, engine, engineMain, streams, loops, toggles, clock>>

toggleMonitoringMain ==
    /\ toggles < MaxToggles
    /\ toggles' = toggles + 1
    /\ IF MONITORING THEN stopMonitoringMain ELSE startMonitoringMain

(***************************************************************************)
(* MainSpec: main.js driven by a user who toggles only while no start is   *)
(* in progress and a camera with a steady frame period; animation frames   *)
(* keep firing while stopMonitoring is suspended.                          *)
(***************************************************************************)
StartSettled ==
    /\ awaiting.camera = 0 /\ awaiting.torchOn = 0 /\ awaiting.play = 0
    /\ awaiting.torchOff = 0
    /\ timers = 0

PatientToggleMain == StartSettled /\ toggleMonitoringMain

NextMain ==
    \/ PatientToggleMain
    \/ \E outcome \in CameraOutcomes : cameraSettledMain(outcome)
    \/ startTorchSettledMain
    \/ \E ok \in BOOLEAN : playSettledMain(ok)
    \/ \E value \in Values, dt \in Periods :
           SteadyPeriod(dt) /\ startDelayElapsedMain(value, dt)
    \/ \E value \in Values, dt \in Periods :
           SteadyPeriod(dt) /\ monitorLoopMain(value, dt)
    \/ stopTorchSettledMain

MainSpec == Init /\ [][NextMain]_vars

(***************************************************************************)
(* EitherSpec: the page has loaded one of the two scripts, part_000 or     *)
(* main.js, and runs it as in Spec or MainSpec with frames FastPeriod      *)
(* apart.  No pure function is called on its own here; call.fn holds the   *)
(* name of the loaded script.                                              *)
(***************************************************************************)
Scripts == {"part_000", "main.js"}

Loaded(script) == [fn |-> script, arg |-> <<>>, done |-> TRUE, result |-> NULL]

EitherInit == call \in {Loaded(script) : script \in Scripts} /\ InitState

NextEither ==
    \/ /\ call.fn = "part_000"
       /\ \/ PatientToggle
          \/ \E ok \in BOOLEAN : cameraSettled(ok)
          \/ startTorchSettled
          \/ \E ok \in BOOLEAN : playSettled(ok)
          \/ \E value \in Values : startDelayElapsed(value, FastPeriod)
          \/ \E value \in Values : monitorLoop(value, FastPeriod)
          \/ stopTorchSettled
    \/ /\ call.fn = "main.js"
       /\ \/ PatientToggleMain
          \/ \E outcome \in CameraOutcomes : cameraSettledMain(outcome)
          \/ startTorchSettledMain
          \/ \E ok \in BOOLEAN : playSettledMain(ok)
          \/ \E value \in Values : startDelayElapsedMain(value, FastPeriod)
          \/ \E value \in Values : monitorLoopMain(value, FastPeriod)
          \/ stopTorchSettledMain

EitherSpec == EitherInit /\ [][NextEither]_vars

(***************************************************************************)
(* FaintSpec: main.js fed a faint pulse.  Troughs (LoValue) alternate with *)
(* peaks; an ordinary peak (RippleValue) keeps the range of the buffer     *)
(* below MIN_SIGNAL_RANGE_FOR_CALCULATION, a tall peak (SpikeValue) lifts  *)
(* it above.                                                               *)
(***************************************************************************)
RippleValue == 5005
SpikeValue == 5012
FaintValues == {LoValue, RippleValue, SpikeValue}

FaintPulse(value) ==
    IF SAMPLE_BUFFER = <<>> THEN TRUE
    ELSE IF SAMPLE_BUFFER[Len(SAMPLE_BUFFER)].value = LoValue
    THEN value # LoValue
    ELSE value = LoValue

NextFaint ==
    \/ PatientToggleMain
    \/ \E outcome \in CameraOutcomes : cameraSettledMain(outcome)
    \/ startTorchSettledMain
    \/ \E ok \in BOOLEAN : playSettledMain(ok)
    \/ \E value \in FaintValues, dt \in Periods :
           SteadyPeriod(dt) /\ FaintPulse(value) /\ startDelayElapsedMain(value, dt)
    \/ \E value \in FaintValues, dt \in Periods :
           SteadyPeriod(dt) /\ FaintPulse(value) /\ monitorLoopMain(value, dt)
    \/ stopTorchSettledMain

FaintSpec == Init /\ [][NextFaint]_vars

(***************************************************************************)
(* DriftMainSpec: main.js on a clean alternating signal (no flat frame)    *)
(* from a camera whose frame period changes, at most MaxPeriodChanges      *)
(* times; the user starts monitoring and never stops a running session.    *)
(***************************************************************************)
PatientStartMain == ~MONITORING /\ PatientToggleMain

NextDriftMain ==
    \/ PatientStartMain
    \/ \E outcome \in CameraOutcomes : cameraSettledMain(outcome)
    \/ startTorchSettledMain
    \/ \E ok \in BOOLEAN : playSettledMain(ok)
    \/ \E value \in Values, dt \in Periods :
           ~IsFlat(value) /\ startDelayElapsedMain(value, dt)
    \/ \E value \in Values, dt \in Periods :
           ~IsFlat(value) /\ monitorLoopMain(value, dt)

DriftMainSpec == Init /\ [][NextDriftMain]_vars

(***************************************************************************)
(* PureSpec: the pure functions of the program, each applied once to an    *)
(* argument drawn from a bounded set.                                      *)
(***************************************************************************)
MaxCrossings == 4
Gaps == {270, 271, 833, 1999, 2000}

program == <<SAMPLE_BUFFER, engine, engineMain, MONITORING, streams, videoPlaying,
             awaiting, timers, loops, toggles, clock, display, surfaced, verdict,
             rawBpm, op>>

\* the crossing samples whose consecutive time differences are gaps
CrossingsWithGaps(gaps) ==
    [i \in 1..(Len(gaps) + 1) |->
        [value |-> HiValue, time |-> SumSeq(SubSeq(gaps, 1, i - 1))]]

CrossingLists ==
    {<<>>} \cup {CrossingsWithGaps(gaps) :
                    gaps \in UNION {[1..n -> Gaps] : n \in 0..(MaxCrossings - 1)}}

\* arrays of numbers (even, so that the mean of two is exact), null and NaN
MaxMedianLen == 4
MedianEntries == {NULL, NaN, 0, 2 * SCALE, 6 * SCALE, 8 * SCALE}
MedianArrays == UNION {[1..n -> MedianEntries] : n \in 0..MaxMedianLen}

\* sample windows over three brightness levels, timestamped by their index
MaxWindow == 6
WindowValues == {0, 1, 2}
Windows ==
    {[i \in 1..Len(values) |-> [value |-> values[i], time |-> i]] :
        values \in UNION {[1..n -> WindowValues] : n \in 0..MaxWindow}}

\* stabilizer evaluations: a stable candidate (or none), its counter and a
\* median at, next to and beyond the tolerance on either side of 60 BPM
MaxCounter == 4
StabilizerCandidates == {NULL, 60 * SCALE, 60 * SCALE + SCALE \div 2}
StabilizerOffsets ==
    {0 - (BPM_STABILITY_TOLERANCE * SCALE + 1), 0 - BPM_STABILITY_TOLERANCE * SCALE,
     0 - 1, 0, 1, BPM_STABILITY_TOLERANCE * SCALE, BPM_STABILITY_TOLERANCE * SCALE + 1}
StabilizerEvaluations ==
    {[candidate |-> c, counter |-> k, median |-> 60 * SCALE + d] :
        c \in StabilizerCandidates, k \in 0..MaxCounter, d \in StabilizerOffsets}

PureCalls ==
    {[fn |-> "calculateBpm", arg |-> crossings, done |-> FALSE, result |-> NULL] :
        crossings \in CrossingLists}
    \cup {[fn |-> "calculateMedian", arg |-> arr, done |-> FALSE, result |-> NULL] :
             arr \in MedianArrays}
    \cup {[fn |-> "getAverageCrossings", arg |-> samples, done |-> FALSE,
           result |-> NULL] : samples \in Windows}
    \cup {[fn |-> fn, arg |-> evaluation, done |-> FALSE, result |-> NULL] :
             fn \in {"stabilizer", "stabilizerMain"},
             evaluation \in StabilizerEvaluations}

PureInit == call \in PureCalls /\ InitState

ApplyCalculateBpm ==
    /\ call.fn = "calculateBpm" /\ ~call.done
    /\ call' = [call EXCEPT !.done = TRUE, !.result = calculateBpm(call.arg)]
    /\ UNCHANGED program

\* calculateMedian sorts a filtered copy, [...arr]: arr itself is left alone
ApplyCalculateMedian ==
    /\ call.fn = "calculateMedian" /\ ~call.done
    /\ call' = [call EXCEPT !.done = TRUE, !.result = calculateMedian(call.arg)]
    /\ UNCHANGED program

\* getAverageCrossings on a window and its average, as analyzeData calls it
ApplyGetAverageCrossings ==
    /\ call.fn = "getAverageCrossings" /\ ~call.done
    /\ call' = [call EXCEPT !.done = TRUE,
                            !.result = getAverageCrossings(call.arg,
                                                           SumSeq(ValuesOf(call.arg)))]
    /\ UNCHANGED program

\* part_000 lines 360-375 on a measurement state with the drawn candidate
\* and counter
ApplyStabilizer ==
    /\ call.fn = "stabilizer" /\ ~call.done
    /\ LET m == [MeasurementState EXCEPT !.candidate = call.arg.candidate,
                                         !.counter = call.arg.counter]
           upd == StabilizerUpdate(m, call.arg.median)
       IN call' = [call EXCEPT !.done = TRUE,
                               !.result = [candidate |-> upd.candidate,
                                           counter |-> upd.counter]]
    /\ UNCHANGED program

\* main.js lines 308-321 on a stability state with the drawn candidate and
\* counter
ApplyStabilizerMain ==
    /\ call.fn = "stabilizerMain" /\ ~call.done
    /\ LET m == [StabilityState EXCEPT !.candidate = call.arg.candidate,
                                       !.counter = call.arg.counter]
           upd == StabilizerUpdateMain(m, call.arg.median)
       IN call' = [call EXCEPT !.done = TRUE,
                               !.result = [candidate |-> upd.candidate,
                                           counter |-> upd.counter]]
    /\ UNCHANGED program

PureNext ==
    \/ ApplyCalculateBpm
    \/ ApplyCalculateMedian
    \/ ApplyGetAverageCrossings
    \/ ApplyStabilizer
    \/ ApplyStabilizerMain

PureSpec == PureInit /\ [][PureNext]_vars

(***************************************************************************)
(* Claims.                                                                 *)
(***************************************************************************)
NonGoodVerdicts == {ANALYZING, LOW_SIGNAL, NOISY, DETECTING_PULSE}

Ticked == op = "processFrame" /\ verdict # ""

\* C1: no tick turns lockedBpm from non-null to null; a lock is cleared only
\* by the full reset of startMonitoring or stopMonitoring, and a tick that
\* changes it overwrites it with a new lock value (counter at the threshold,
\* the rounded stable candidate).
C1_LockSurvivesTicks ==
    [][lockedBpm # NULL =>
          /\ (op' = "processFrame" => lockedBpm' # NULL)
          /\ (lockedBpm' = NULL => op' \in {"startMonitoring", "stopDone"})
          /\ (op' = "processFrame" /\ lockedBpm' # lockedBpm =>
                 /\ verdict' = GOOD_SIGNAL
                 /\ currentStabilityCounter' >= REQUIRED_STABILITY_COUNT
                 /\ lockedBpm' = Round(currentStableBpmCandidate'))]_vars

\* a tick with a non-Good verdict has run while a BPM is locked
C1_Witness == Ticked /\ verdict \in NonGoodVerdicts /\ lockedBpm # NULL

C3_GoodTickShowsLock ==
    [][(lockedBpm # NULL /\ op' = "processFrame" /\ verdict' = GOOD_SIGNAL) =>
          /\ lockedBpm' # NULL
          /\ surfaced' = Number(lockedBpm')
          /\ display' = Number(lockedBpm')]_vars

\* a Good tick under a lock on which the stabilizer did not lock again
C3_Witness ==
    /\ Ticked /\ verdict = GOOD_SIGNAL /\ lockedBpm # NULL
    /\ currentStabilityCounter < REQUIRED_STABILITY_COUNT
    /\ surfaced = Number(lockedBpm)

\* C4: on a tick that evaluates the stabilizer (at least 3 candidate medians),
\* a counter >= 3 after the update sets lockedBpm to round(stableCandidate)
\* and surfaces that integer; a counter < 3 leaves lockedBpm unchanged.
C4_LockAtThreshold ==
    [][(op' = "processFrame" /\ verdict' = GOOD_SIGNAL
        /\ Len(stableBpmCandidateBuffer') >= REQUIRED_STABILITY_COUNT) =>
          IF currentStabilityCounter' >= REQUIRED_STABILITY_COUNT
          THEN /\ lockedBpm' = Round(currentStableBpmCandidate')
               /\ surfaced' = Number(lockedBpm')
          ELSE lockedBpm' = lockedBpm]_vars

\* the counter has just reached 3 and a smoothed, non-integer candidate is locked
C4_Witness ==
    /\ Ticked /\ verdict = GOOD_SIGNAL
    /\ currentStabilityCounter = REQUIRED_STABILITY_COUNT
    /\ currentStableBpmCandidate % SCALE # 0
    /\ lockedBpm = Round(currentStableBpmCandidate)
    /\ surfaced = Number(lockedBpm)

\* statistics of the buffer a tick has analysed
EnoughSamples == 3 * Len(SAMPLE_BUFFER) >= MAX_SAMPLES
BufferRange == analyzeData(SAMPLE_BUFFER).range
CrossingCount == Len(analyzeData(SAMPLE_BUFFER).crossings)

\* C5: the gate yields exactly one verdict, the first that matches in the
\* order Analyzing (too few samples), LowSignal (range below the minimum),
\* Noisy, DetectingPulse (fewer than 4 crossings), Good; with enough samples,
\* a range below the minimum and fewer than 4 crossings it is LowSignal.
C5_GatePrecedence ==
    Ticked =>
        /\ verdict \in NonGoodVerdicts \cup {GOOD_SIGNAL}
        /\ verdict = ANALYZING <=> ~EnoughSamples
        /\ verdict = LOW_SIGNAL <=> (EnoughSamples /\ BufferRange < MIN_SIGNAL_RANGE)
        /\ verdict = DETECTING_PULSE =>
               /\ EnoughSamples /\ BufferRange >= MIN_SIGNAL_RANGE
               /\ CrossingCount < MIN_CROSSINGS_FOR_RAW_BPM
        /\ verdict = GOOD_SIGNAL =>
               /\ EnoughSamples /\ BufferRange >= MIN_SIGNAL_RANGE
               /\ CrossingCount >= MIN_CROSSINGS_FOR_RAW_BPM
        /\ (EnoughSamples /\ BufferRange < MIN_SIGNAL_RANGE
                /\ CrossingCount < MIN_CROSSINGS_FOR_RAW_BPM) => verdict = LOW_SIGNAL

\* enough samples, range and crossing count both below their thresholds
C5_Witness ==
    /\ Ticked /\ EnoughSamples
    /\ BufferRange < MIN_SIGNAL_RANGE
    /\ CrossingCount < MIN_CROSSINGS_FOR_RAW_BPM
    /\ verdict = LOW_SIGNAL

\* the population standard deviation of the buffer's values divided by their
\* range exceeds 0.35, i.e. variance > 0.1225 * range^2; with n values v of
\* sum S the variance is sum((n*v - S)^2) / n^3
RECURSIVE SquaredDeviations(_, _, _)
SquaredDeviations(values, sum, n) ==
    IF values = <<>> THEN 0
    ELSE (n * Head(values) - sum) * (n * Head(values) - sum)
             + SquaredDeviations(Tail(values), sum, n)

DispersionExceedsRatio ==
    LET values == ValuesOf(SAMPLE_BUFFER)
        n == Len(values)
    IN 400 * SquaredDeviations(values, SumSeq(values), n)
           > 49 * BufferRange * BufferRange * n * n * n

\* C6: with enough samples and range >= MIN_SIGNAL_RANGE the verdict is Noisy
\* exactly when standard deviation / range exceeds MAX_SIGNAL_STD_DEV_RATIO.
C6_NoisyWhenDispersed ==
    (Ticked /\ EnoughSamples /\ BufferRange >= MIN_SIGNAL_RANGE) =>
        (verdict = NOISY <=> DispersionExceedsRatio)

\* C7: the sample buffer never exceeds MAX_SAMPLES; a tick appends its sample
\* and, when the buffer was full, evicts exactly the oldest one, so the buffer
\* holds the most recent samples in insertion order.
C7_BufferKeepsMostRecent ==
    [][(op' = "processFrame" /\ verdict' # "") =>
          LET old == SAMPLE_BUFFER
              new == SAMPLE_BUFFER'
              evicted == IF Len(old) = MAX_SAMPLES THEN 1 ELSE 0
          IN /\ Len(old) <= MAX_SAMPLES
             /\ Len(new) <= MAX_SAMPLES
             /\ Len(new) = Len(old) + 1 - evicted
             /\ new[Len(new)].time = now'
             /\ \A i \in 1..(Len(new) - 1) : new[i] = old[i + evicted]]_vars

\* after MAX_SAMPLES + 1 pushes the first retained sample is the 2nd pushed
C7_Witness ==
    /\ Ticked /\ toggles = 1 /\ frames = MAX_SAMPLES + 1
    /\ Len(SAMPLE_BUFFER) = MAX_SAMPLES
    /\ SAMPLE_BUFFER[1].time = 2 * period

\* the measurement state after a full reset
FullyReset ==
    /\ recentValidRawBpms = <<>>
    /\ stableBpmCandidateBuffer = <<>>
    /\ currentStableBpmCandidate = NULL
    /\ currentStabilityCounter = 0
    /\ lockedBpm = NULL

C10_RejectedEstimateKeepsDisplay ==
    [][(op' = "processFrame" /\ verdict' = GOOD_SIGNAL /\ ~AcceptedRawBpm(rawBpm'))
          => display' = display]_vars

\* C9 (main.js): no tick executes between the invocation of stopMonitoring
\* and its completion, i.e. while the call is suspended in its awaited
\* torch teardown.
C9_NoTickDuringStop ==
    op = "processFrame" => awaiting.torchOff = 0

\* every retained raw BPM observation is younger than the validity window
AllFresh ==
    \A i \in 1..Len(recentValidRawBpms) :
        now - recentValidRawBpms[i].time < RAW_BPM_VALIDITY_WINDOW_MS

\* C11 (as claimed): after any tick, every observation left in
\* recentValidRawBpms is younger than RAW_BPM_VALIDITY_WINDOW_MS.
C11_NoStaleObservationAfterTick ==
    Ticked => AllFresh

\* C11 (amended): eviction runs only on a tick that accepts a raw BPM, after
\* which every observation left is younger than the window; a Good tick that
\* rejects its raw BPM and a non-Good tick under a lock leave the list as it
\* was, a non-Good tick without a lock empties it.
C11_EvictionOnAcceptedTicks ==
    [][(op' = "processFrame" /\ verdict' # "") =>
          IF AcceptedRawBpm(rawBpm') THEN AllFresh'
          ELSE IF verdict' = GOOD_SIGNAL \/ lockedBpm # NULL
          THEN recentValidRawBpms' = recentValidRawBpms
          ELSE recentValidRawBpms' = <<>>]_vars

\* a tick that accepted no raw BPM has left a stale observation in the list
C11_Witness ==
    Ticked /\ ~AcceptedRawBpm(rawBpm) /\ ~AllFresh

\* the bpm values of the retained raw BPM observations
RetainedBpms == [i \in 1..Len(recentValidRawBpms) |-> recentValidRawBpms[i].bpm]

\* at least 3 observations are retained and their bpms span at most 10
RetainedConsistent ==
    /\ Len(recentValidRawBpms) >= 3
    /\ \A i, j \in 1..Len(recentValidRawBpms) :
           recentValidRawBpms[i].bpm - recentValidRawBpms[j].bpm <= 10 * SCALE

\* C12: a tick pushes a candidate median only when it accepts a raw BPM and,
\* after eviction, at least 3 observations are retained with max - min <= 10;
\* then it pushes exactly one candidate, the median of the retained bpms.
\* Any other tick pushes nothing, so no candidate is emitted while an outlier
\* is retained.
C12_CandidateOnlyWhenConsistent ==
    [][(op' = "processFrame" /\ verdict' # "") =>
          IF AcceptedRawBpm(rawBpm') /\ RetainedConsistent'
          THEN stableBpmCandidateBuffer' =
                   PushCandidate(stableBpmCandidateBuffer, calculateMedian(RetainedBpms'))
          ELSE \/ stableBpmCandidateBuffer' = stableBpmCandidateBuffer
               \/ verdict' # GOOD_SIGNAL /\ stableBpmCandidateBuffer' = <<>>]_vars

\* the first candidate is emitted with more than 3 observations retained:
\* earlier ticks retained 3 or more with an outlier among them and emitted
\* nothing, and emission has resumed now that the outlier has aged out
C12_Witness ==
    /\ Ticked /\ AcceptedRawBpm(rawBpm) /\ RetainedConsistent
    /\ Len(recentValidRawBpms) > 3
    /\ Len(stableBpmCandidateBuffer) = 1

\* the k-th smallest element of a sequence of numbers, by counting
KthSmallest(seq, k) ==
    CHOOSE x \in {seq[i] : i \in 1..Len(seq)} :
        /\ Cardinality({i \in 1..Len(seq) : seq[i] < x}) < k
        /\ Cardinality({i \in 1..Len(seq) : seq[i] <= x}) >= k

\* twice the reference median of a non-empty sequence of numbers
TwiceMedian(seq) ==
    KthSmallest(seq, (Len(seq) + 1) \div 2) + KthSmallest(seq, Len(seq) \div 2 + 1)

\* the consecutive time differences of the argument of a calculateBpm call
CallDifferences ==
    [i \in 1..(Len(call.arg) - 1) |-> call.arg[i + 1].time - call.arg[i].time]

StrictlyPlausible(d) == d > 270 /\ d < 2000

\* C13: calculateBpm returns null with fewer than 2 crossings or with no
\* difference strictly between 270 and 2000 ms; otherwise 60000 / median of
\* exactly the plausible differences (to the resolution 1/SCALE of the
\* representation), a value strictly between 30 and 60000/270; crossings a
\* constant d apart give 60000/d.
C13_CalculateBpm ==
    (call.fn = "calculateBpm" /\ call.done) =>
        LET plausible == SelectSeq(CallDifferences, StrictlyPlausible)
        IN IF Len(call.arg) < 2 \/ plausible = <<>>
           THEN call.result = NULL
           ELSE /\ call.result # NULL
                /\ Abs(call.result - (120000 * SCALE) \div TwiceMedian(plausible)) <= 1
                /\ call.result > 30 * SCALE
                /\ call.result * 270 < 60000 * SCALE
                /\ \A d \in Gaps :
                       (\A i \in 1..Len(CallDifferences) : CallDifferences[i] = d)
                           => call.result = (60000 * SCALE) \div d

\* differences 833, 2000, 270: the two boundary values are discarded and the
\* result is 60000/833, about 72
C13_Witness ==
    /\ call.fn = "calculateBpm" /\ call.done
    /\ CallDifferences = <<833, 2000, 270>>
    /\ call.result # NULL /\ Round(call.result) = 72

\* a BPM in 1/SCALE units lies within [30, 220]
Physiological(bpm) == bpm >= 30 * SCALE /\ bpm <= 220 * SCALE

\* C14: every retained raw BPM, every candidate median, the stable candidate
\* and the locked BPM lie within [30, 220] in every reachable state.
C14_BpmsWithinRange ==
    /\ \A i \in 1..Len(recentValidRawBpms) : Physiological(recentValidRawBpms[i].bpm)
    /\ \A i \in 1..Len(stableBpmCandidateBuffer) :
           Physiological(stableBpmCandidateBuffer[i])
    /\ currentStableBpmCandidate # NULL => Physiological(currentStableBpmCandidate)
    /\ lockedBpm # NULL => (lockedBpm >= 30 /\ lockedBpm <= 220)

\* a Good tick has computed a raw BPM above 220 and not accepted it, with
\* earlier observations still retained
C14_Witness ==
    /\ Ticked /\ verdict = GOOD_SIGNAL
    /\ rawBpm # NULL /\ rawBpm > 220 * SCALE
    /\ recentValidRawBpms # <<>>

\* C15: calculateMedian drops null and NaN entries and returns the reference
\* median of the rest (middle element for an odd count, mean of the two
\* middle elements for an even count), null when nothing is left; the
\* argument array is unchanged by the call.
C15_MedianIsReference ==
    [][(call.fn = "calculateMedian" /\ ~call.done /\ call'.done) =>
          LET numeric == SelectSeq(call.arg, IsNumber)
          IN /\ call'.arg = call.arg
             /\ IF numeric = <<>> THEN call'.result = NULL
                ELSE 2 * call'.result = TwiceMedian(numeric)]_vars

\* an unsorted array with a NaN and a null: the mean of the 2 numbers
C15_Witness ==
    /\ call.fn = "calculateMedian" /\ call.done
    /\ call.arg = <<8 * SCALE, NaN, 2 * SCALE, NULL>>
    /\ call.result = 5 * SCALE

\* the window of a getAverageCrossings call: its length and the sum of its
\* values; value v is above the average when v * length > sum
WindowLen == Len(call.arg)
WindowSum == SumSeq(ValuesOf(call.arg))
Above(i) == call.arg[i].value * WindowLen > WindowSum
Below(i) == call.arg[i].value * WindowLen < WindowSum

\* the indices of the upward crossings: above the average, previous not above
UpwardIndices == {i \in 2..WindowLen : Above(i) /\ ~Above(i - 1)}

\* the window is a square wave of period T samples: every sample strictly
\* above or below the average, repeating every T samples, one rise per period
IsSquareWave(T) ==
    /\ WindowLen >= T
    /\ \A i \in 1..WindowLen : Above(i) \/ Below(i)
    /\ \A i \in 1..(WindowLen - T) : call.arg[i + T].value = call.arg[i].value
    /\ Cardinality({i \in 1..T : Above(i) /\ Below(((i + T - 2) % T) + 1)}) = 1

\* C16: getAverageCrossings returns, in buffer order, exactly the samples
\* strictly above the window average whose predecessor is not above it; on a
\* square wave of period T over n samples that is floor(n/T) crossings, give
\* or take one.
C16_UpwardCrossings ==
    (call.fn = "getAverageCrossings" /\ call.done) =>
        /\ Len(call.result) = Cardinality(UpwardIndices)
        /\ \A i \in UpwardIndices :
               call.result[Cardinality({j \in UpwardIndices : j < i}) + 1] = call.arg[i]
        /\ \A T \in 2..WindowLen :
               IsSquareWave(T) => Abs(Len(call.result) - WindowLen \div T) <= 1

\* a square wave of period 3 over 6 samples, starting high: 1 upward crossing
C16_Witness ==
    /\ call.fn = "getAverageCrossings" /\ call.done
    /\ ValuesOf(call.arg) = <<2, 0, 0, 2, 0, 0>>
    /\ IsSquareWave(3)
    /\ Len(call.result) = 1


\* the sample buffer holds too few samples for main.js to calculate
FewSamples(buffer) == 3 * Len(buffer) < MAX_SAMPLES

\* the range of the buffered values is below 0.001
LowRange(buffer) ==
    /\ buffer # <<>>
    /\ MaxSeq(ValuesOf(buffer)) - MinSeq(ValuesOf(buffer)) < VALUE_UNIT \div 1000

\* C17 (as claimed): a tick of main.js clears an existing lock only when too
\* few samples have been gathered or when the range is below the minimum on
\* this tick and was already below it on the tick before; a single low-range
\* tick after a tick with adequate signal leaves the lock in place.
C17_LockSurvivesSingleLowRangeTick ==
    [][(op' = "processFrame" /\ lastDisplayedBpm # NULL /\ lastDisplayedBpm' = NULL)
          => \/ FewSamples(SAMPLE_BUFFER')
             \/ LowRange(SAMPLE_BUFFER') /\ LowRange(SAMPLE_BUFFER)]_vars

\* C17 (amended): every tick of main.js with too few samples or with a range
\* below the minimum leaves no lock behind, the first low-range tick after
\* adequate signal included, and a tick clears a lock in no other case.
C17_LowRangeTickClearsLock ==
    [][op' = "processFrame" =>
          /\ (FewSamples(SAMPLE_BUFFER') \/ LowRange(SAMPLE_BUFFER'))
                 => lastDisplayedBpm' = NULL
          /\ (lastDisplayedBpm # NULL /\ lastDisplayedBpm' = NULL)
                 => (FewSamples(SAMPLE_BUFFER') \/ LowRange(SAMPLE_BUFFER'))]_vars

\* a first low-range tick: the buffer is full and flat but for the ripple,
\* the tall peak that kept the range adequate left the buffer on this tick
C17_Witness ==
    /\ op = "processFrame" /\ verdict = LOW_SIGNAL_MAIN
    /\ Len(SAMPLE_BUFFER) = MAX_SAMPLES
    /\ LowRange(SAMPLE_BUFFER)
    /\ frames >= 2 * MAX_SAMPLES
    /\ lastDisplayedBpm = NULL
    /\ display = Status(LOW_SIGNAL_MAIN)


\* all buffered samples have the same value
ConstantStream(buffer) ==
    \A i \in 1..Len(buffer) : buffer[i].value = buffer[1].value

\* C18: a tick with a non-Good verdict estimates nothing: no raw BPM is
\* computed, nothing is appended to recentValidRawBpms or pushed onto
\* stableBpmCandidateBuffer, the stabilizer does not move the candidate or
\* its counter, and no BPM is handed to the display; under a lock the two
\* buffers, the stable candidate, the counter and lockedBpm are unchanged.
\* A buffer of at least MAX_SAMPLES/3 samples of one value gives LowSignal
\* and no raw BPM.
C18_NonGoodTickEstimatesNothing ==
    [][(op' = "processFrame" /\ verdict' # "") =>
          /\ verdict' \in NonGoodVerdicts =>
                /\ rawBpm' = NULL
                /\ recentValidRawBpms' \in {recentValidRawBpms, <<>>}
                /\ stableBpmCandidateBuffer' \in {stableBpmCandidateBuffer, <<>>}
                /\ currentStableBpmCandidate' \in {currentStableBpmCandidate, NULL}
                /\ currentStabilityCounter' \in {currentStabilityCounter, 0}
                /\ surfaced'.kind \in {"none", "status"}
                /\ lockedBpm # NULL =>
                      UNCHANGED <<recentValidRawBpms, stableBpmCandidateBuffer,
                                  currentStableBpmCandidate, currentStabilityCounter,
                                  lockedBpm>>
          /\ (3 * Len(SAMPLE_BUFFER') >= MAX_SAMPLES /\ ConstantStream(SAMPLE_BUFFER'))
                => (verdict' = LOW_SIGNAL /\ rawBpm' = NULL)]_vars

\* a non-Good tick has run under a lock and the observations, the candidate
\* medians and the stable candidate gathered before it are still there
C18_Witness ==
    /\ Ticked /\ verdict \in NonGoodVerdicts /\ lockedBpm # NULL
    /\ recentValidRawBpms # <<>>
    /\ Len(stableBpmCandidateBuffer) >= REQUIRED_STABILITY_COUNT
    /\ currentStableBpmCandidate # NULL
    /\ currentStabilityCounter >= REQUIRED_STABILITY_COUNT


\* C19: a tick with a non-Good verdict while no BPM is locked performs a
\* partial reset: afterwards recentValidRawBpms and stableBpmCandidateBuffer
\* are empty, the stable candidate is null, the counter is 0 and lockedBpm is
\* still null; the sample buffer is not cleared, it holds the new sample.
C19_PartialResetWithoutLock ==
    [][(op' = "processFrame" /\ verdict' \in NonGoodVerdicts /\ lockedBpm = NULL) =>
          /\ recentValidRawBpms' = <<>>
          /\ stableBpmCandidateBuffer' = <<>>
          /\ currentStableBpmCandidate' = NULL
          /\ currentStabilityCounter' = 0
          /\ lockedBpm' = NULL
          /\ SAMPLE_BUFFER' # <<>>
          /\ Len(SAMPLE_BUFFER') >= Len(SAMPLE_BUFFER)
          /\ SAMPLE_BUFFER'[Len(SAMPLE_BUFFER')].time = now']_vars

\* a non-Good tick without a lock has run on a full sample buffer: the
\* working state is empty and the samples are still there
C19_Witness ==
    /\ Ticked /\ verdict \in {NOISY, DETECTING_PULSE} /\ lockedBpm = NULL
    /\ recentValidRawBpms = <<>> /\ stableBpmCandidateBuffer = <<>>
    /\ currentStableBpmCandidate = NULL /\ currentStabilityCounter = 0
    /\ Len(SAMPLE_BUFFER) = MAX_SAMPLES


\* a stabilizer evaluation of either variant has run
StabilizerEvaluated == call.done /\ call.fn \in {"stabilizer", "stabilizerMain"}

\* a stable candidate exists and the median is within 3 BPM of it
WithinTolerance(evaluation) ==
    /\ evaluation.candidate # NULL
    /\ evaluation.median - evaluation.candidate <= 3 * SCALE
    /\ evaluation.candidate - evaluation.median <= 3 * SCALE

\* C20: a stabilizer evaluation (part_000 and main.js) with a stable
\* candidate and |median - candidate| <= 3, the boundary included, increases
\* the counter by exactly 1 and sets the candidate to 0.7 * candidate +
\* 0.3 * median (here to the hundredth of a BPM below it), which lies between
\* the old candidate and the median.
C20_SmoothingWithinTolerance ==
    (StabilizerEvaluated /\ WithinTolerance(call.arg)) =>
        LET old == call.arg.candidate
            median == call.arg.median
            new == call.result.candidate
        IN /\ call.result.counter = call.arg.counter + 1
           /\ 10 * new <= 7 * old + 3 * median
           /\ 7 * old + 3 * median < 10 * new + 10
           /\ (old <= median => (old <= new /\ new <= median))
           /\ (median <= old => (median <= new /\ new <= old))

\* the boundary: the median is exactly 3 BPM above the candidate, the counter
\* went from 2 to 3 and the candidate moved strictly between the two
C20_Witness ==
    /\ StabilizerEvaluated
    /\ call.arg.candidate # NULL
    /\ call.arg.median - call.arg.candidate = 3 * SCALE
    /\ call.arg.counter = 2 /\ call.result.counter = 3
    /\ call.arg.candidate < call.result.candidate
    /\ call.result.candidate < call.arg.median


\* the stabilizer runs on this tick: the verdict is Good and the candidate
\* buffer holds at least 3 medians after the consistency filter
StabilizerRuns ==
    /\ op' = "processFrame" /\ verdict' = GOOD_SIGNAL
    /\ Len(stableBpmCandidateBuffer') >= 3

\* there is no stable candidate or the median is more than 3 BPM away from it
BeyondTolerance(median) ==
    \/ currentStableBpmCandidate = NULL
    \/ median - currentStableBpmCandidate > 3 * SCALE
    \/ currentStableBpmCandidate - median > 3 * SCALE

\* C21: a stabilizer evaluation with no stable candidate, or with a median
\* of candidates more than 3 BPM from the stable candidate, sets the stable
\* candidate to the median and the counter to exactly 1, and keeps lockedBpm.
C21_ShiftRestartsCount ==
    [][StabilizerRuns =>
          LET median == calculateMedian(stableBpmCandidateBuffer')
          IN BeyondTolerance(median) =>
                /\ currentStableBpmCandidate' = median
                /\ currentStabilityCounter' = 1
                /\ lockedBpm' = lockedBpm]_vars

\* the candidate has shifted under a lock: the lock is still there, the count
\* that led to it is gone and the stable candidate is the median of candidates
C21_Witness ==
    /\ Ticked /\ verdict = GOOD_SIGNAL
    /\ lockedBpm # NULL
    /\ currentStabilityCounter = 1
    /\ Len(stableBpmCandidateBuffer) >= 3
    /\ currentStableBpmCandidate = calculateMedian(stableBpmCandidateBuffer)
    /\ Round(currentStableBpmCandidate) # lockedBpm


\* C22: after a stabilizer evaluation that does not lock (counter below 3
\* after the update) the surfaced value is lockedBpm when there is one, else
\* the rounded forming candidate marked tentative ('?'), else the status
\* 'Calculating...'.
C22_NotLockedPrecedence ==
    (/\ Ticked /\ verdict = GOOD_SIGNAL
     /\ Len(stableBpmCandidateBuffer) >= 3
     /\ currentStabilityCounter < 3) =>
        surfaced = IF lockedBpm # NULL
                   THEN [kind |-> "number", bpm |-> lockedBpm, text |-> ""]
                   ELSE IF currentStableBpmCandidate # NULL
                   THEN [kind |-> "tentative",
                         bpm |-> Round(currentStableBpmCandidate), text |-> ""]
                   ELSE [kind |-> "status", bpm |-> NULL, text |-> "Calculating..."]

\* the stabilizer ran without a lock and the forming candidate is on the
\* display, marked tentative
C22_Witness ==
    /\ Ticked /\ verdict = GOOD_SIGNAL
    /\ Len(stableBpmCandidateBuffer) >= 3
    /\ currentStabilityCounter < 3
    /\ lockedBpm = NULL
    /\ display.kind = "tentative"
    /\ display.bpm = Round(currentStableBpmCandidate)


\* C23: a Good tick that leaves fewer than 3 candidate medians in
\* stableBpmCandidateBuffer does not evaluate the stabilizer (stable
\* candidate, counter and lockedBpm unchanged) and surfaces lockedBpm when
\* there is one, else the status 'Detecting...'.
C23_FewCandidates ==
    [][(op' = "processFrame" /\ verdict' = GOOD_SIGNAL
        /\ Len(stableBpmCandidateBuffer') < 3) =>
          /\ UNCHANGED <<currentStableBpmCandidate, currentStabilityCounter, lockedBpm>>
          /\ surfaced' = IF lockedBpm # NULL
                         THEN [kind |-> "number", bpm |-> lockedBpm, text |-> ""]
                         ELSE [kind |-> "status", bpm |-> NULL, text |-> "Detecting..."]]_vars

\* a Good tick has pushed a candidate median, there are still fewer than 3
\* and the display reads 'Detecting...'
C23_Witness ==
    /\ Ticked /\ verdict = GOOD_SIGNAL
    /\ Len(stableBpmCandidateBuffer) \in 1..2
    /\ display = Status("Detecting...")
    /\ currentStabilityCounter = 0


\* a raw BPM within [30, 220] was computed
InRange(bpm) == bpm # NULL /\ bpm >= 30 * SCALE /\ bpm <= 220 * SCALE

\* at least 3 bpm values, two of them more than 10 apart
Inconsistent(bpms) ==
    /\ Len(bpms) >= 3
    /\ \E i, j \in 1..Len(bpms) : bpms[i] - bpms[j] > 10 * SCALE

\* at least 3 observations are retained and two of them are more than 10 apart
RetainedInconsistent ==
    Inconsistent([i \in 1..Len(recentValidRawBpms) |-> recentValidRawBpms[i].bpm])

\* C24: a tick that accepts a raw BPM which, with the earlier observations
\* younger than 2000 ms, makes at least 3 observations with max - min > 10
\* pushes no candidate median (stableBpmCandidateBuffer is unchanged) and
\* does not clear recentValidRawBpms: afterwards the list holds every earlier
\* observation younger than 2000 ms, in order, and the new one at its end.
C24_InconsistentSpreadKeepsWindow ==
    [][(op' = "processFrame" /\ verdict' = GOOD_SIGNAL /\ InRange(rawBpm')) =>
          LET Young(rb) == now' - rb.time < 2000
              young == SelectSeq(recentValidRawBpms, Young)
              bpms == [i \in 1..(Len(young) + 1) |->
                          IF i <= Len(young) THEN young[i].bpm ELSE rawBpm']
          IN Inconsistent(bpms) =>
                /\ stableBpmCandidateBuffer' = stableBpmCandidateBuffer
                /\ Len(recentValidRawBpms') = Len(young) + 1
                /\ SubSeq(recentValidRawBpms', 1, Len(young)) = young
                /\ recentValidRawBpms'[Len(young) + 1].bpm = rawBpm'
                /\ recentValidRawBpms'[Len(young) + 1].time = now']_vars

\* an accepted raw BPM has joined two or more earlier observations that it
\* is inconsistent with
C24_Witness ==
    /\ Ticked /\ verdict = GOOD_SIGNAL /\ InRange(rawBpm)
    /\ RetainedInconsistent
    /\ recentValidRawBpms[Len(recentValidRawBpms)].time = now
    /\ recentValidRawBpms[1].time < now


\* C25: stableBpmCandidateBuffer never holds more than 5 candidate medians;
\* a tick that accepts a raw BPM consistent with the retained observations
\* appends its candidate at the end and, when the buffer already held 5,
\* drops exactly the oldest, so the buffer holds the most recent candidates
\* in emission order.
C25_CandidateBufferSlides ==
    [][/\ Len(stableBpmCandidateBuffer') <= 5
       /\ (op' = "processFrame" /\ verdict' = GOOD_SIGNAL /\ InRange(rawBpm')
           /\ RetainedConsistent') =>
             LET n == Len(stableBpmCandidateBuffer)
                 kept == IF n >= 5 THEN Tail(stableBpmCandidateBuffer)
                         ELSE stableBpmCandidateBuffer
             IN /\ Len(stableBpmCandidateBuffer') = Len(kept) + 1
                /\ SubSeq(stableBpmCandidateBuffer', 1, Len(kept)) = kept
                /\ stableBpmCandidateBuffer'[Len(kept) + 1] =
                       calculateMedian(RetainedBpms')]_vars

\* the buffer is full, its last entry is the candidate of this tick and its
\* entries are not all the same
C25_Witness ==
    /\ Ticked /\ verdict = GOOD_SIGNAL /\ InRange(rawBpm) /\ RetainedConsistent
    /\ Len(stableBpmCandidateBuffer) = 5
    /\ stableBpmCandidateBuffer[5] = calculateMedian(RetainedBpms)
    /\ stableBpmCandidateBuffer[1] # stableBpmCandidateBuffer[5]


\* an observation older than the validity window is in the list
StaleRetained ==
    \E i \in 1..Len(recentValidRawBpms) : now - recentValidRawBpms[i].time >= 2000

\* C26: no observation aged 2000 ms or more at the tick's timestamp
\* contributes to a candidate median: whether a candidate is pushed, and its
\* value, depend only on the accepted raw BPM and the earlier observations
\* with now - timestamp < 2000, also when earlier ticks left stale
\* observations in the list.
C26_StaleObservationsDoNotContribute ==
    [][(op' = "processFrame" /\ verdict' = GOOD_SIGNAL /\ InRange(rawBpm')) =>
          LET Young(rb) == now' - rb.time < 2000
              young == SelectSeq(recentValidRawBpms, Young)
              bpms == [i \in 1..(Len(young) + 1) |->
                          IF i <= Len(young) THEN young[i].bpm ELSE rawBpm']
              spread == \E i, j \in 1..Len(bpms) : bpms[i] - bpms[j] > 10 * SCALE
          IN IF Len(bpms) >= 3 /\ ~spread
             THEN /\ stableBpmCandidateBuffer' # <<>>
                  /\ stableBpmCandidateBuffer'[Len(stableBpmCandidateBuffer')]
                         = calculateMedian(bpms)
                  /\ Len(stableBpmCandidateBuffer') =
                         IF Len(stableBpmCandidateBuffer) >= 5 THEN 5
                         ELSE Len(stableBpmCandidateBuffer) + 1
             ELSE stableBpmCandidateBuffer' = stableBpmCandidateBuffer]_vars


\* a candidate was pushed on a tick that comes more than 2000 ms after the
\* sample buffer filled: the window is full (an observation one frame period
\* older than the oldest retained one would be 2000 ms old) and the first
\* observations are no longer in the list
C26_Witness ==
    /\ Ticked /\ verdict = GOOD_SIGNAL /\ InRange(rawBpm) /\ RetainedConsistent
    /\ stableBpmCandidateBuffer # <<>>
    /\ stableBpmCandidateBuffer[Len(stableBpmCandidateBuffer)]
           = calculateMedian(RetainedBpms)
    /\ now - recentValidRawBpms[1].time + period >= 2000
    /\ ~StaleRetained
    /\ frames * period > 2000 + MAX_SAMPLES * period


InRangeMain(bpm) == bpm # NULL /\ bpm >= 30 * SCALE /\ bpm <= 240 * SCALE

\* C28 (main.js): rawBpmBuffer never holds more than 10 values and an
\* accepted raw BPM is appended at its end, the oldest value leaving when
\* there were 10 already; a tick that leaves fewer than 5 values in it
\* evaluates no median (candidate, counter and lastDisplayedBpm unchanged);
\* a tick raises the counter by at most 1, and it assigns lastDisplayedBpm a
\* non-null value only when the counter has reached 5 on that tick.
C28_RawBufferAndLock ==
    [][/\ Len(rawBpmBuffer') <= 10
       /\ op' = "processFrame" =>
             /\ (verdict' = GOOD_SIGNAL /\ InRangeMain(rawBpm')) =>
                    rawBpmBuffer' =
                       Append(IF Len(rawBpmBuffer) >= 10 THEN Tail(rawBpmBuffer)
                              ELSE rawBpmBuffer, rawBpm')
             /\ (verdict' = GOOD_SIGNAL /\ Len(rawBpmBuffer') < 5) =>
                    UNCHANGED <<stableBpmCandidate, stabilityCounter, lastDisplayedBpm>>
       /\ stabilityCounter' <= stabilityCounter + 1
       /\ (lastDisplayedBpm' # lastDisplayedBpm /\ lastDisplayedBpm' # NULL) =>
             /\ op' = "processFrame"
             /\ stabilityCounter' >= 5
             /\ lastDisplayedBpm' = stableBpmCandidate']_vars

\* the buffer is full after a push that evicted: its values are not all the
\* same and the oldest is no longer the first raw BPM of the session
C28_Witness ==
    /\ op = "processFrame" /\ verdict = GOOD_SIGNAL /\ InRangeMain(rawBpm)
    /\ Len(rawBpmBuffer) = 10
    /\ rawBpmBuffer[10] = rawBpm
    /\ rawBpmBuffer[1] # rawBpmBuffer[10]
    /\ lastDisplayedBpm # NULL


\* C29: at most one monitorLoop animation-frame chain is running at any
\* time, whatever the interleaving of toggleMonitoring with the awaits of
\* startMonitoring and stopMonitoring and with the START_DELAY timeout.
C29_SingleTickLoop == loops <= 1

\* C30: whenever MONITORING is true, VIDEO_STREAM is non-null and its tracks
\* have not been stopped.
C30_MonitoringHoldsLiveStream ==
    MONITORING => (VIDEO_STREAM # NULL /\ VIDEO_STREAM \in activeStreams)


\* the fewest consecutive Good ticks that can have produced the working
\* state: an observation per tick (lines 328-330), a first candidate median
\* on the third (line 333), a first stabilizer evaluation on the third
\* candidate (line 357), one count per evaluation (lines 361-375)
GoodTicksNeeded ==
    LET observations == Len(recentValidRawBpms)
        candidates == IF stableBpmCandidateBuffer = <<>> THEN 0
                      ELSE (MIN_CONSISTENT_RAW_BPMS_FOR_CANDIDATE - 1)
                           + Len(stableBpmCandidateBuffer)
        count == IF currentStabilityCounter = 0 THEN 0
                 ELSE (MIN_CONSISTENT_RAW_BPMS_FOR_CANDIDATE - 1)
                      + (REQUIRED_STABILITY_COUNT - 1) + currentStabilityCounter
        upTo == IF observations >= candidates THEN observations ELSE candidates
    IN IF upTo >= count THEN upTo ELSE count

\* C31: while no BPM is locked, a Good tick advances the working state by
\* at most one Good tick's worth, a non-Good tick and a reset put it back
\* to nothing, and a lock is only set by a Good tick whose working state
\* needs at least 7 consecutive Good ticks: from an empty working state no
\* lock appears before the 7th consecutive Good tick.
C31_LockNeedsSevenGoodTicks ==
    [][lockedBpm = NULL =>
          /\ (op' = "processFrame" /\ verdict' = GOOD_SIGNAL =>
                 GoodTicksNeeded' <= GoodTicksNeeded + 1)
          /\ (op' = "processFrame" /\ verdict' \in NonGoodVerdicts =>
                 GoodTicksNeeded' = 0 /\ lockedBpm' = NULL)
          /\ (op' \in {"startMonitoring", "stopDone"} =>
                 GoodTicksNeeded' = 0 /\ lockedBpm' = NULL)
          /\ (lockedBpm' # NULL =>
                 /\ op' = "processFrame" /\ verdict' = GOOD_SIGNAL
                 /\ GoodTicksNeeded' >= 7)]_vars

\* a first lock set with the working state at its minimum: 3 observations
\* of one pass, the fifth candidate median, the third count
C31_Witness ==
    /\ Ticked /\ verdict = GOOD_SIGNAL /\ lockedBpm # NULL
    /\ currentStabilityCounter = REQUIRED_STABILITY_COUNT
    /\ Len(stableBpmCandidateBuffer) = STABLE_BPM_CANDIDATE_BUFFER_SIZE
    /\ GoodTicksNeeded = 7


\* lines 326-338 on the raw BPM bpm at currentTime: no candidate median is
\* pushed, because bpm is rejected or because the observations younger than
\* 2000 ms, with bpm, are fewer than 3 or more than 10 apart
NoNewCandidate(bpm, currentTime) ==
    LET Young(rb) == currentTime - rb.time < 2000
        young == SelectSeq(recentValidRawBpms, Young)
        bpms == [i \in 1..(Len(young) + 1) |->
                    IF i <= Len(young) THEN young[i].bpm ELSE bpm]
    IN \/ ~InRange(bpm)
       \/ Len(bpms) < 3
       \/ Inconsistent(bpms)

C33_CounterMatchesCandidate ==
    /\ currentStabilityCounter >= 0
    /\ (currentStabilityCounter = 0 <=> currentStableBpmCandidate = NULL)
    /\ stabilityCounter >= 0
    /\ (stabilityCounter = 0 <=> stableBpmCandidate = NULL)

\* a tick of main.js has reset the candidate and its count under a lock,
\* which an earlier tick set from a candidate counted to the threshold
C33_Witness ==
    /\ call.fn = "main.js" /\ Ticked
    /\ lastDisplayedBpm # NULL
    /\ stableBpmCandidate = NULL /\ stabilityCounter = 0


\* C34: in part_000 the display callback never receives 'Good Signal' or
\* 'Calculating...'.  What a tick hands to it, when it hands anything, is
\* the locked integer, the rounded candidate marked tentative (no lock),
\* 'Detecting...', or the non-Good status of this tick's gate; and after a
\* Good tick on 3 or more candidate medians the stable candidate is
\* non-null, so the 'Calculating...' branch is not taken.
C34_NeverGoodSignalNorCalculating ==
    /\ ~(display.kind = "status" /\ display.text \in {"Good Signal", "Calculating..."})
    /\ ~(surfaced.kind = "status" /\ surfaced.text \in {"Good Signal", "Calculating..."})
    /\ (Ticked /\ surfaced.kind # "none") =>
          \/ /\ surfaced.kind = "number"
             /\ lockedBpm # NULL /\ surfaced.bpm = lockedBpm
          \/ /\ surfaced.kind = "tentative"
             /\ lockedBpm = NULL /\ verdict = GOOD_SIGNAL
             /\ currentStableBpmCandidate # NULL
             /\ surfaced.bpm = Round(currentStableBpmCandidate)
          \/ /\ surfaced.kind = "status" /\ surfaced.text = "Detecting..."
             /\ verdict = GOOD_SIGNAL
          \/ /\ surfaced.kind = "status" /\ surfaced.text \in NonGoodVerdicts
             /\ surfaced.text = verdict
    /\ (Ticked /\ verdict = GOOD_SIGNAL
        /\ Len(stableBpmCandidateBuffer) >= REQUIRED_STABILITY_COUNT) =>
          currentStableBpmCandidate # NULL /\ surfaced.kind \in {"number", "tentative"}

\* a Good tick without a lock and with too few candidate medians has
\* handed 'Detecting...' to the callback while the stored status is
\* 'Good Signal'
C34_Witness ==
    /\ Ticked /\ verdict = GOOD_SIGNAL /\ lockedBpm = NULL
    /\ lastSignalQualityStatus = "Good Signal"
    /\ Len(stableBpmCandidateBuffer) < REQUIRED_STABILITY_COUNT
    /\ surfaced.kind = "status" /\ surfaced.text = "Detecting..."
    /\ display = surfaced

====
